---------------------------- MODULE Spec2Model ----------------------------
(***************************************************************************)
(* A model of the markdown preprocessing passes of the documentation      *)
(* build pipeline (src/pipeline/preprocessors, src/pipeline/constants.py, *)
(* src/pipeline/core/snippets.py).                                         *)
(*                                                                         *)
(* A text is a sequence of tokens.  A token is a string of the text that  *)
(* the patterns of the pipeline can only consume as a whole: the fence    *)
(* marker ":::", the code fence of three backticks (written "'''" here:   *)
(* a string of the module cannot hold a backtick), the backslash, "$["    *)
(* and "]", a space, a newline, and words (maximal runs of \w characters  *)
(* are runs of word tokens).  The regular expressions of the pipeline are  *)
(* modelled with Python's backtracking order: greedy quantifiers longest  *)
(* first, lazy quantifiers shortest first, leftmost match first, and      *)
(* re.sub replacing the non-overlapping matches from left to right.       *)
(***************************************************************************)
EXTENDS Integers, Sequences, FiniteSets, Bags, TLC

VARIABLES
    src,          \* the text argument of the call (md_text / content / markdown)
    lang,         \* the target_language argument
    env,          \* the TARGET_LANGUAGE environment variable
    constantsMap, \* CONSTANTS_MAP, the process-wide constants registry
    pc,           \* where the call is: "start" or "done"
    resolved,     \* local `result` after the conditional-block substitution
    unescaped,    \* local `result` after the unescape substitution
    ret,          \* the value returned, NoValue before the return or on a raise
    err,          \* the exception raised by the call, "none" if none
    warnings,     \* what was logged: the names, in the order of the log
    call,         \* the function called, "none" before the call
    linked,       \* local `content` after replace_autolinks
    passes,       \* number of completed calls on this text
    orig,         \* the text of the first call
    extracted,    \* the list returned by _extract_code_blocks, NoValue before
    manualMaps,   \* MANUAL_LINK_MAPS, the argument manual_maps
    autoMaps,     \* AUTO_GENERATED_LINK_MAPS, the argument auto_maps
    linkMaps,     \* LINK_MAPS, NoValue before the merge
    scopeLinkMaps, \* SCOPE_LINK_MAPS as computed, NoValue before
    snippets,     \* the list returned by _extract_code_snippets
    dirs,         \* the directories that exist under the output root
    files,        \* the files written under the output root
    exportErr,    \* the exception _export_file ended with, "none" if none
    members,      \* tar.getmembers(): the name and the kind of each member
    tree,         \* the directories and the files of the file system
    tarErr,       \* the exception _extract_html_dir ended with, or "none"
    srcFiles,     \* the files of the source directory, in the order of rglob
    runOp,        \* the operation run: build_all, build_file or export_all
    runArg,       \* the index in srcFiles of the argument of build_file
    runPos,       \* the number of iterations of the loops completed
    runDone,      \* what the run has written: source, output path, target
    runLog,       \* what logger.exception has logged, in order
    runErr,       \* the exception the run ended with, "none" if none
    configs,      \* INVENTORY_CONFIGS with the response each inventory_url gives
    invPos,       \* the number of configs main has gone through
    linkMapList,  \* the local link_maps of main
    invLog,       \* the errors main has printed to stderr
    invOut,       \* the maps printed to stdout, empty before
    invErr,       \* the exception main ended with, "none" if none
    cmdArgs,      \* the arguments export_only and lint_only of the command
    srcExists,    \* whether the source directory exists
    outTree,      \* the output directory: its language directories
    cmdEnv,       \* whether make is on the PATH, what export_all raises
    cmdRan,       \* the calls the command has made, in order
    cmdLog,       \* the lint failures logged: language and return code
    cmdRet,       \* the exit code returned, -1 before the return
    cmdErr,       \* the exception the command ended with, "none" if none
    outBefore,    \* the output root when export_all or clean_all was called
    url,          \* the url argument of _fetch_extract_tarball, parsed
    net,          \* what urlopen and tarfile.open will do
    tmpFiles,     \* the temporary files that exist
    downloads,    \* the number of calls of urlopen
    fetchErr,     \* the exception _fetch_extract_tarball ended with
    agentState,   \* the SupportState fields active_agent, warranty_status, issue_type
    messages,     \* the kinds of the messages of the state, oldest first
    lastRequest,  \* the model request as the middleware handed it to the model
    agentErr,     \* the exception a model call ended with, "none" if none
    fileTexts,    \* the text of each file given to the per-file transform
    running,      \* for each file, the function its thread is in, "none" between calls
    pending,      \* for each file, the calls its thread has still to make
    frames,       \* the parameters and the locals of the call in progress of each file
    outputs,      \* for each file, what each of its finished calls returned
    records       \* the records of the process-wide loggers, as a bag

\* The variables of the calls of the preprocessing and extraction functions.
callVars == <<src, lang, env, constantsMap, pc, resolved, unescaped, ret, err,
              warnings, call, linked, passes, orig, extracted>>

\* The same without the position pc.
callData == <<src, lang, env, constantsMap, resolved, unescaped, ret, err,
              warnings, call, linked, passes, orig, extracted>>

\* The variables of the link registry.
linkVars == <<manualMaps, autoMaps, linkMaps, scopeLinkMaps>>

\* The variables of the export of the snippets of a file.
snipVars == <<snippets, dirs, files, exportErr>>

\* The variables of the extraction of an archive.
tarVars == <<members, tree, tarErr>>

\* The variables a call of a text function leaves alone.
\* The variables of a run over the files of the source directory.
buildVars == <<srcFiles, runOp, runArg, runPos, runDone, runLog, runErr>>

\* The variables of the generation of the link maps.
invVars == <<configs, invPos, linkMapList, invLog, invOut, invErr>>

\* The variables of the snippets command.
cmdVars == <<cmdArgs, srcExists, outTree, cmdEnv, cmdRan, cmdLog, cmdRet, cmdErr>>

\* The variables of an export run (export_all) besides those of the export.
expVars == <<outBefore>>

\* The variables of the download of a tarball.
fetchVars == <<url, net, tmpFiles, downloads, fetchErr>>

\* The variables of the support agent of the handoffs example.
supportVars == <<agentState, messages, lastRequest, agentErr>>

\* The variables of the per-file transform run for several files at once.
parVars == <<fileTexts, running, pending, frames, outputs, records>>

\* The variables of the commands and of the scripts around the pipeline.
moreVars == <<buildVars, invVars, cmdVars, expVars, fetchVars, supportVars, parVars>>

otherVars == <<linkVars, snipVars, tarVars, moreVars>>

vars == <<callVars, otherVars>>

\* ------------------------------------------------------------------ bounds

\* Number of lines of an input text with conditional fences.
MaxLines == 3

\* Number of lines of an input text with code blocks.
MaxCodeLines == 4

\* Number of calls of _apply_conditional_rendering chained on one text.
MaxPasses == 2

\* ------------------------------------------------------------------ tokens

NoValue == "<none>"
None == "<None>"

FENCE == ":::"
TICKS == "'''"
BSL == "\\"
NL == "\n"
SP == " "
TAB == "\t"
DOLLAR == "$["
RBR == "]"
AT == "@["
LBR == "["
LPAREN == "("
RPAREN == ")"

\* \w+ : tokens made of word characters only.
WordTokens ==
    {"python", "js", "ruby", "py", "A", "ignore", "export", "K", "E", "U",
     "StateGraph", "initChatModel", "Missing", "T",
     "ts", "typescript", "javascript"}

\* [ \t] : horizontal whitespace.
HSpace == {SP, TAB}

\* \s : whitespace, newline included.
WSpace == HSpace \cup {NL}

MaxOf(S) == CHOOSE x \in S : \A y \in S : y <= x

MinOf(S) == CHOOSE x \in S : \A y \in S : x <= y

\* Length of the longest run of tokens of S in t that starts at position p.
RECURSIVE Run(_, _, _)
Run(t, p, S) ==
    IF p <= Len(t) /\ t[p] \in S THEN 1 + Run(t, p + 1, S) ELSE 0

\* Length of the longest run of tokens not in S that starts at position p.
RECURSIVE RunNot(_, _, _)
RunNot(t, p, S) ==
    IF p <= Len(t) /\ t[p] \notin S THEN 1 + RunNot(t, p + 1, S) ELSE 0

\* t[a..b], empty when b < a.
Slice(t, a, b) == IF b < a THEN <<>> ELSE SubSeq(t, a, b)

At(t, p) == IF p >= 1 /\ p <= Len(t) THEN t[p] ELSE NoValue

Contains(t, x) == \E i \in 1..Len(t) : t[i] = x

RECURSIVE Flatten(_)
Flatten(ss) == IF ss = <<>> THEN <<>> ELSE Head(ss) \o Flatten(Tail(ss))

\* "\n".join(lines)
RECURSIVE JoinLines(_)
JoinLines(ls) ==
    IF ls = <<>> THEN <<>>
    ELSE IF Len(ls) = 1 THEN ls[1]
    ELSE ls[1] \o <<NL>> \o JoinLines(Tail(ls))

\* Path.as_posix(): the components joined by "/".
RECURSIVE JoinPath(_)
JoinPath(path) ==
    IF path = <<>> THEN <<>>
    ELSE IF Len(path) = 1 THEN path[1]
    ELSE path[1] \o <<"/">> \o JoinPath(Tail(path))

\* ------------------------------------------- CONDITIONAL_BLOCK_PATTERN

\* The languages replace_conditional_blocks resolves.
SupportedLanguages == {"python", "js"}

\* CondOpenFenceOk without its lookbehind: an escaped marker opens a block.
CondOpenFenceOkEscaped(t, s, i) == At(t, s + i) = FENCE

\* (?P<indent>[ \t]*)(?<!\\):::  with an indent of i tokens from position s:
\* the fence marker follows the indent and no backslash precedes it.
CondOpenFenceOk(t, s, i) ==
    /\ At(t, s + i) = FENCE
    /\ At(t, s + i - 1) # BSL

\* (?P=indent)[ \t]*(?<!\\):::  at position q, for the indent t[s..s+i-1]:
\* the position of the closing fence marker, 0 when the closing does not
\* match.  [ \t]* is greedy and only its longest run can be followed by
\* the marker.
CondClosePos(t, q, s, i) ==
    LET p == q + i + Run(t, q + i, HSpace)
    IN  IF /\ q + i - 1 <= Len(t)
           /\ Slice(t, q, q + i - 1) = Slice(t, s, s + i - 1)
           /\ At(t, p) = FENCE
           /\ At(t, p - 1) # BSL
        THEN p
        ELSE 0

\* ((?:.*\n)*?) from position c: the positions where the content can end,
\* after zero or more whole lines.
ContentEnds(t, c) ==
    {q \in c..(Len(t) + 1) : q = c \/ t[q - 1] = NL}

\* The ways CONDITIONAL_BLOCK_PATTERN matches at position s: indent of i
\* tokens, language of w tokens, \s* of x tokens, content ending before q.
CondCandidates(t, s) ==
    UNION { UNION { UNION {
        { [i |-> i, w |-> w, x |-> x, q |-> q] :
            q \in {q \in ContentEnds(t, s + i + 1 + w + x + 1) :
                       CondClosePos(t, q, s, i) # 0} } :
          x \in {x \in 0..Run(t, s + i + 1 + w, WSpace) :
                       At(t, s + i + 1 + w + x) = NL} } :
          w \in 1..Run(t, s + i + 1, WordTokens) } :
          i \in {i \in 0..Run(t, s, HSpace) : CondOpenFenceOk(t, s, i)} }

\* The backtracking order: the greedy indent, language and \s* longest
\* first, the lazy content shortest first.
CondBefore(a, b) ==
    \/ a.i > b.i
    \/ a.i = b.i /\ a.w > b.w
    \/ a.i = b.i /\ a.w = b.w /\ a.x > b.x
    \/ a.i = b.i /\ a.w = b.w /\ a.x = b.x /\ a.q <= b.q

\* The match object of the first candidate at s.
CondMatchAt(t, s) ==
    LET C == CondCandidates(t, s)
        c == CHOOSE a \in C : \A b \in C : CondBefore(a, b)
        cs == s + c.i + 1 + c.w + c.x + 1
        cp == CondClosePos(t, c.q, s, c.i)
    IN  [start |-> s,
         open |-> s + c.i,
         language |-> Slice(t, s + c.i + 1, s + c.i + c.w),
         cstart |-> cs,
         content |-> Slice(t, cs, c.q - 1),
         close |-> cp,
         end |-> cp + 1]

\* The leftmost position >= p where the pattern matches, 0 if none.
RECURSIVE CondSearch(_, _)
CondSearch(t, p) ==
    IF p > Len(t) THEN 0
    ELSE IF CondCandidates(t, p) # {} THEN p
    ELSE CondSearch(t, p + 1)

\* finditer: the non-overlapping matches from position p on, left to right.
RECURSIVE CondMatches(_, _)
CondMatches(t, p) ==
    LET s == CondSearch(t, p)
    IN  IF s = 0 THEN <<>>
        ELSE LET m == CondMatchAt(t, s)
             IN  <<m>> \o CondMatches(t, m.end)

\* replace_conditional_blocks: the replacement of one match.
replace_conditional_blocks(t, m, target) ==
    IF \A l \in SupportedLanguages : m.language # <<l>>
    THEN Slice(t, m.start, m.end - 1)
    ELSE IF m.language = <<target>> THEN m.content
    ELSE <<>>

\* CONDITIONAL_BLOCK_PATTERN.sub(replace_conditional_blocks, md_text),
\* from position p on.
RECURSIVE CondSub(_, _, _)
CondSub(t, p, target) ==
    LET s == CondSearch(t, p)
    IN  IF s = 0 THEN Slice(t, p, Len(t))
        ELSE LET m == CondMatchAt(t, s)
             IN  Slice(t, p, s - 1)
                   \o replace_conditional_blocks(t, m, target)
                   \o CondSub(t, m.end, target)

\* re.sub(r"\\(:::)", r"\1", result): every backslash directly followed by
\* a fence marker is deleted.
RECURSIVE UnescapeFences(_)
UnescapeFences(t) ==
    IF t = <<>> THEN <<>>
    ELSE IF Len(t) >= 2 /\ t[1] = BSL /\ t[2] = FENCE
         THEN <<FENCE>> \o UnescapeFences(Slice(t, 3, Len(t)))
         ELSE <<t[1]>> \o UnescapeFences(Tail(t))

\* --------------------------------------------------- CODE_BLOCK_PATTERN

\* (?P=indent)''' at position q, for the indent t[s..s+i-1].
CodeCloseOk(t, q, s, i) ==
    /\ q + i <= Len(t)
    /\ Slice(t, q, q + i - 1) = Slice(t, s, s + i - 1)
    /\ t[q + i] = TICKS

\* The ways CODE_BLOCK_PATTERN matches at position s: indent of i tokens,
\* language of w tokens, [ ]* of g tokens, attributes of a tokens up to the
\* newline, content ending before q.
CodeCandidates(t, s) ==
    UNION { UNION { UNION { UNION {
        { [i |-> i, w |-> w, g |-> g, a |-> a, q |-> q] :
            q \in {q \in ContentEnds(t, s + i + 1 + w + g + a + 1) :
                       CodeCloseOk(t, q, s, i)} } :
          a \in {a \in 0..RunNot(t, s + i + 1 + w + g, {NL}) :
                       At(t, s + i + 1 + w + g + a) = NL} } :
          g \in 0..Run(t, s + i + 1 + w, {SP}) } :
          w \in 1..Run(t, s + i + 1, WordTokens) } :
          i \in {i \in 0..Run(t, s, HSpace) : At(t, s + i) = TICKS} }

\* The backtracking order: every quantifier of the opening line is greedy,
\* the content is lazy.
CodeBefore(a, b) ==
    \/ a.i > b.i
    \/ a.i = b.i /\ a.w > b.w
    \/ a.i = b.i /\ a.w = b.w /\ a.g > b.g
    \/ a.i = b.i /\ a.w = b.w /\ a.g = b.g /\ a.a > b.a
    \/ a.i = b.i /\ a.w = b.w /\ a.g = b.g /\ a.a = b.a /\ a.q <= b.q

\* The match object of the first candidate at s.
CodeMatchAt(t, s) ==
    LET C == CodeCandidates(t, s)
        c == CHOOSE a \in C : \A b \in C : CodeBefore(a, b)
        as == s + c.i + 1 + c.w + c.g
        cs == as + c.a + 1
    IN  [start |-> s,
         language |-> Slice(t, s + c.i + 1, s + c.i + c.w),
         attributes |-> Slice(t, as, as + c.a - 1),
         code |-> Slice(t, cs, c.q - 1),
         end |-> c.q + c.i + 1]

\* The leftmost position >= p where the pattern matches, 0 if none.
RECURSIVE CodeSearch(_, _)
CodeSearch(t, p) ==
    IF p > Len(t) THEN 0
    ELSE IF CodeCandidates(t, p) # {} THEN p
    ELSE CodeSearch(t, p + 1)

\* CODE_BLOCK_PATTERN.finditer(content) from position p on.
RECURSIVE CodeMatches(_, _)
CodeMatches(t, p) ==
    LET s == CodeSearch(t, p)
    IN  IF s = 0 THEN <<>>
        ELSE LET m == CodeMatchAt(t, s)
             IN  <<m>> \o CodeMatches(t, m.end)

\* str.strip() / str.rstrip() of an attribute string.
RECURSIVE RStrip(_)
RStrip(a) ==
    IF a # <<>> /\ a[Len(a)] \in WSpace THEN RStrip(Slice(a, 1, Len(a) - 1))
    ELSE a

RECURSIVE LStrip(_)
LStrip(a) == IF a # <<>> /\ a[1] \in WSpace THEN LStrip(Tail(a)) ELSE a

Strip(a) == LStrip(RStrip(a))

\* "ignore" in attributes, "export" in attributes.
HasAttribute(a, word) == Contains(a, word)

\* A replacement that removes every code block, ignore or not.
StripEveryCodeBlock(t, m) == <<>>

\* A replacement that keeps every code block, ignore or not.
KeepEveryCodeBlock(t, m) == Slice(t, m.start, m.end - 1)

\* replace_ignored_code_blocks: the replacement of one match.
replace_ignored_code_blocks(t, m) ==
    IF HasAttribute(Strip(m.attributes), "ignore") THEN <<>>
    ELSE Slice(t, m.start, m.end - 1)

\* CODE_BLOCK_PATTERN.sub(replace_ignored_code_blocks, result), from p on.
RECURSIVE CodeSub(_, _)
CodeSub(t, p) ==
    LET s == CodeSearch(t, p)
    IN  IF s = 0 THEN Slice(t, p, Len(t))
        ELSE LET m == CodeMatchAt(t, s)
             IN  Slice(t, p, s - 1)
                   \o replace_ignored_code_blocks(t, m)
                   \o CodeSub(t, m.end)

\* ------------------------------------------ _apply_conditional_rendering

\* The guard of _apply_conditional_rendering on its target_language.
\* A check that lets every target language through.
AnyTargetLanguage(target) == TRUE

ValidTargetLanguage(target) == target \in {"python", "js"}

\* _apply_conditional_rendering(md_text, target_language): the locals and
\* the outcome of the call.
apply_conditional_rendering(t, target) ==
    IF ~ValidTargetLanguage(target)
    THEN [resolved |-> NoValue, unescaped |-> NoValue, ret |-> NoValue,
          err |-> "ValueError"]
    ELSE LET r1 == CondSub(t, 1, target)
             r2 == UnescapeFences(r1)
         IN  [resolved |-> r1, unescaped |-> r2, ret |-> CodeSub(r2, 1),
              err |-> "none"]

\* A call of _apply_conditional_rendering(src, lang).
ApplyConditionalRendering ==
    /\ pc = "start"
    /\ \E r \in {apply_conditional_rendering(src, lang)} :
           /\ resolved' = r.resolved
           /\ unescaped' = r.unescaped
           /\ ret' = r.ret
           /\ err' = r.err
    /\ pc' = "done"
    /\ passes' = passes + 1
    /\ call' = "_apply_conditional_rendering"
    /\ UNCHANGED <<src, lang, env, constantsMap, warnings, linked, orig,
                   extracted>>
    /\ UNCHANGED otherVars

\* The output of a call is given to a next call, with the same target,
\* once the source text has been scanned for its code blocks.
CallAgain ==
    /\ pc = "done"
    /\ err = "none"
    /\ passes < MaxPasses
    /\ extracted # NoValue
    /\ src' = ret
    /\ pc' = "start"
    /\ resolved' = NoValue
    /\ unescaped' = NoValue
    /\ ret' = NoValue
    /\ UNCHANGED <<lang, env, constantsMap, err, warnings, call, linked,
                   passes, orig, extracted>>
    /\ UNCHANGED otherVars

\* ------------------------------------------------- _extract_code_blocks

\* DocumentationSnippetsParser.language_aliases
language_aliases(l) ==
    IF l \in {<<"py">>, <<"python">>} THEN <<"python">>
    ELSE IF l \in {<<"js">>, <<"javascript">>, <<"ts">>, <<"typescript">>}
         THEN <<"typescript">>
    ELSE l

\* The number of characters of the tokens of t.
RECURSIVE CharLen(_)
CharLen(t) == IF t = <<>> THEN 0 ELSE Len(Head(t)) + CharLen(Tail(t))

\* content.count("\n", 0, char_index)
CountNewlines(t, p) == Cardinality({j \in 1..(p - 1) : t[j] = NL})

\* A search that finds no newline.
NoNewline(t, p) == 0

\* content.rfind("\n", 0, char_index): the position of the last newline
\* before p, 0 if there is none.
LastNewline(t, p) ==
    LET J == {j \in 1..(p - 1) : t[j] = NL}
    IN  IF J = {} THEN 0 ELSE MaxOf(J)

\* The CodeBlock recorded for a match, whatever its attributes.
CodeBlockOf(t, m) ==
    [line |-> CountNewlines(t, m.start),
     column |-> CharLen(Slice(t, LastNewline(t, m.start) + 1, m.start - 1)),
     language |-> language_aliases(m.language),
     attributes |-> RStrip(m.attributes),
     content |-> m.code]

\* A filter that keeps the blocks declaring export only.
ExportOnly(m) == HasAttribute(RStrip(m.attributes), "export")

\* The filter of _extract_code_blocks: blocks with neither attribute are
\* skipped.
IsExtracted(m) ==
    \/ HasAttribute(RStrip(m.attributes), "export")
    \/ HasAttribute(RStrip(m.attributes), "ignore")

RECURSIVE ExtractFrom(_, _)
ExtractFrom(t, ms) ==
    IF ms = <<>> THEN <<>>
    ELSE (IF IsExtracted(Head(ms)) THEN <<CodeBlockOf(t, Head(ms))>> ELSE <<>>)
           \o ExtractFrom(t, Tail(ms))

\* _extract_code_blocks(content)
extract_code_blocks(t) == ExtractFrom(t, CodeMatches(t, 1))

\* The export workflow scans the source text, the one given to the first
\* call.
ExtractCodeBlocks ==
    /\ pc = "done"
    /\ extracted = NoValue
    /\ extracted' = extract_code_blocks(orig)
    /\ UNCHANGED <<src, lang, env, constantsMap, pc, resolved, unescaped, ret,
                   err, warnings, call, linked, passes, orig>>
    /\ UNCHANGED otherVars

\* ----------------------------------------------------------- input texts

\* The texts of at most max lines, each line one of Kinds.
TextsOf(Kinds, max) ==
    {JoinLines(ls) : ls \in UNION {[1..n -> Kinds] : n \in 0..max}}

\* Lines of a text with conditional fences: fences of the two supported
\* languages and of another one, a closing fence, escaped fences, indented
\* fences, a line of content, an empty line.
CondLineKinds ==
    { <<FENCE, "python">>, <<FENCE, "js">>, <<FENCE, "ruby">>, <<FENCE>>,
      <<BSL, FENCE, "python">>, <<BSL, FENCE>>,
      <<SP, FENCE, "python">>, <<SP, FENCE>>,
      <<"A">>, <<>> }

\* CONSTANTS_MAP as shipped: no entry.
EmptyMap == [n \in {} |-> <<>>]

\* The link registry is not built.
InitNoLinks ==
    /\ manualMaps = <<>>
    /\ autoMaps = <<>>
    /\ linkMaps = NoValue
    /\ scopeLinkMaps = NoValue

\* No file is exported.
InitNoExport ==
    /\ snippets = NoValue
    /\ dirs = {}
    /\ files = {}
    /\ exportErr = "none"

\* No archive is extracted.
InitNoTar ==
    /\ members = <<>>
    /\ tree = [dirs |-> {}, files |-> {}]
    /\ tarErr = "none"

\* The state of what a call of a text function leaves alone.
\* No run over the source directory is in progress.
InitNoBuild ==
    /\ srcFiles = <<>>
    /\ runOp = "none"
    /\ runArg = 0
    /\ runPos = 0
    /\ runDone = {}
    /\ runLog = <<>>
    /\ runErr = "none"

\* No generation of link maps is in progress.
InitNoInventory ==
    /\ configs = <<>>
    /\ invPos = 0
    /\ linkMapList = <<>>
    /\ invLog = <<>>
    /\ invOut = <<>>
    /\ invErr = "none"

\* No snippets command is running.
InitNoCommand ==
    /\ cmdArgs = [export_only |-> FALSE, lint_only |-> FALSE]
    /\ srcExists = FALSE
    /\ outTree = [exists |-> FALSE, langs |-> <<>>]
    /\ cmdEnv = [make |-> FALSE, exportFault |-> "none"]
    /\ cmdRan = <<>>
    /\ cmdLog = <<>>
    /\ cmdRet = 0 - 1
    /\ cmdErr = "none"

\* No export run is in progress.
InitNoExportAll ==
    /\ outBefore = [dirs |-> {}, files |-> {}]

\* No tarball is downloaded.
InitNoFetch ==
    /\ url = [scheme |-> "https"]
    /\ net = [urlopen |-> "ok", archive |-> "ok"]
    /\ tmpFiles = {}
    /\ downloads = 0
    /\ fetchErr = "none"

\* No support conversation is going on.
InitNoSupport ==
    /\ agentState = [active_agent |-> None, warranty_status |-> None, issue_type |-> None]
    /\ messages = <<>>
    /\ lastRequest = [messages |-> <<>>, tools |-> {}, overriddenBy |-> <<>>, error |-> "none"]
    /\ agentErr = "none"

\* No file is being transformed.
InitNoParallel ==
    /\ fileTexts = <<>>
    /\ running = <<>>
    /\ pending = <<>>
    /\ frames = <<>>
    /\ outputs = <<>>
    /\ records = <<>>

\* None of the commands and scripts around the pipeline is running.
InitNoMore == InitNoBuild /\ InitNoInventory /\ InitNoCommand /\ InitNoExportAll /\ InitNoFetch /\ InitNoSupport /\ InitNoParallel

InitOthers == InitNoLinks /\ InitNoExport /\ InitNoTar /\ InitNoMore

\* Before the call: nothing computed, nothing logged.
InitCallLocals ==
    /\ pc = "start"
    /\ resolved = NoValue
    /\ unescaped = NoValue
    /\ ret = NoValue
    /\ err = "none"
    /\ warnings = <<>>
    /\ call = "none"
    /\ linked = NoValue
    /\ passes = 0
    /\ orig = src
    /\ extracted = NoValue

\* The same, with nothing else going on.
InitLocals == InitOthers /\ InitCallLocals

\* TARGET_LANGUAGE set to its default, CONSTANTS_MAP as shipped.
InitCall ==
    /\ env = "python"
    /\ constantsMap = EmptyMap
    /\ InitLocals

\* _apply_conditional_rendering on texts with conditional fences.
InitCond ==
    /\ src \in TextsOf(CondLineKinds, MaxLines)
    /\ lang \in SupportedLanguages
    /\ InitCall

NextCond == ApplyConditionalRendering

SpecCond == InitCond /\ [][NextCond]_vars

\* ------------------------------------------------------ lines of a text

\* text.split("\n")
RECURSIVE SplitLines(_)
SplitLines(t) ==
    LET n == RunNot(t, 1, {NL})
    IN  IF n = Len(t) THEN <<t>>
        ELSE <<Slice(t, 1, n)>> \o SplitLines(Slice(t, n + 2, Len(t)))

\* The position in the text of the first token of line a.
RECURSIVE LineStart(_, _)
LineStart(ls, a) ==
    IF a = 1 THEN 1 ELSE LineStart(ls, a - 1) + Len(ls[a - 1]) + 1

\* CONDITIONAL_FENCE_PATTERN: the line is an indent, the fence marker, an
\* optional language of word characters and trailing whitespace.
IsFenceLine(l) ==
    LET i == Run(l, 1, HSpace)
        w == Run(l, i + 2, WordTokens)
    IN  /\ At(l, i + 1) = FENCE
        /\ i + 1 + w + Run(l, i + 2 + w, WSpace) = Len(l)

FenceIndent(l) == Slice(l, 1, Run(l, 1, HSpace))

FenceLanguage(l) ==
    LET i == Run(l, 1, HSpace)
    IN  Slice(l, i + 2, i + 1 + Run(l, i + 2, WordTokens))

\* An opening fence declares a language, a closing fence declares none.
IsOpeningFence(l) == IsFenceLine(l) /\ FenceLanguage(l) # <<>>

IsClosingFence(l) == IsFenceLine(l) /\ FenceLanguage(l) = <<>>

\* The first line after a that closes the opening fence of line a: a
\* closing fence of the same indentation; 0 if there is none.
ClosingLine(ls, a) ==
    LET J == {j \in (a + 1)..Len(ls) :
                 IsClosingFence(ls[j]) /\ FenceIndent(ls[j]) = FenceIndent(ls[a])}
    IN  IF J = {} THEN 0 ELSE MinOf(J)

\* Every fence line of ls[a..] belongs to a well-formed block: an opening
\* fence, content lines without a fence, the closing fence of the same
\* indentation.
RECURSIVE WellFormedFrom(_, _)
WellFormedFrom(ls, a) ==
    IF a > Len(ls) THEN TRUE
    ELSE IF ~IsFenceLine(ls[a]) THEN WellFormedFrom(ls, a + 1)
    ELSE LET c == ClosingLine(ls, a)
         IN  /\ IsOpeningFence(ls[a])
             /\ c # 0
             /\ \A j \in (a + 1)..(c - 1) : ~IsFenceLine(ls[j])
             /\ WellFormedFrom(ls, c + 1)

WellFormedText(t) == WellFormedFrom(SplitLines(t), 1)

\* What the resolution of the well-formed blocks of ls[a..] leaves, line by
\* line: a block of the target language leaves its content lines, a block
\* of the other supported language nothing, and both leave what follows
\* the closing marker on its line (an empty rest of line); a block of
\* another language and a line outside a block stay as they are.
RECURSIVE ExpectedLines(_, _, _)
ExpectedLines(ls, a, target) ==
    IF a > Len(ls) THEN <<>>
    ELSE IF ~IsFenceLine(ls[a])
         THEN <<ls[a]>> \o ExpectedLines(ls, a + 1, target)
    ELSE LET c == ClosingLine(ls, a)
             g == FenceLanguage(ls[a])
         IN  (IF \A l \in SupportedLanguages : g # <<l>>
              THEN Slice(ls, a, c)
              ELSE IF g = <<target>> THEN Slice(ls, a + 1, c - 1) \o << <<>> >>
              ELSE << <<>> >>)
             \o ExpectedLines(ls, c + 1, target)

ExpectedResolved(t, target) == JoinLines(ExpectedLines(SplitLines(t), 1, target))

\* ------------------------------------------------------------------- C1

\* C1: on a text whose conditional blocks are all well-formed, the
\* conditional-block step of _apply_conditional_rendering replaces a block
\* of the target language by exactly its inner content, a block of the
\* other supported language by nothing, and leaves a block of any other
\* language and the text outside the blocks as they are.
C1_BlocksResolvedExactly ==
    (pc = "done" /\ err = "none" /\ WellFormedText(src))
        => resolved = ExpectedResolved(src, lang)

\* ------------------------------------------------------------------- C2

\* The number of escaped fence markers of t before position p.
EscapedBefore(t, p) ==
    Cardinality({j \in 1..(p - 1) : t[j] = BSL /\ At(t, j + 1) = FENCE})

\* C2: no match of the block pattern has an escaped marker as its opening
\* or closing fence, and every escaped fence left by the block step is in
\* the output as the bare marker, at its place, the backslash removed and
\* nothing else: what follows it is kept.
C2_EscapedFencesLiteral ==
    (pc = "done" /\ err = "none") =>
        /\ \A k \in DOMAIN CondMatches(src, 1) :
             LET m == CondMatches(src, 1)[k]
             IN  At(src, m.open - 1) # BSL /\ At(src, m.close - 1) # BSL
        /\ \A p \in 1..Len(resolved) :
             (resolved[p] = BSL /\ At(resolved, p + 1) = FENCE)
                => LET o == p - EscapedBefore(resolved, p)
                   IN  /\ At(ret, o) = FENCE
                       /\ At(ret, o - 1) # BSL
                       /\ At(resolved, p + 2) \in WordTokens
                            => At(ret, o + 1) = At(resolved, p + 2)
        /\ Len(ret) = Len(resolved) - EscapedBefore(resolved, Len(resolved) + 1)

\* C2 witness: a block is matched in a text that holds an escaped fence,
\* which is left by the block step and rendered as the bare marker.
C2_Witness ==
    /\ pc = "done"
    /\ err = "none"
    /\ CondMatches(src, 1) # <<>>
    /\ \E p \in 1..Len(resolved) : resolved[p] = BSL /\ At(resolved, p + 1) = FENCE
    /\ Contains(ret, FENCE)
    /\ ~Contains(ret, BSL)

\* ------------------------------------------------------------------- C3

\* C3: an opening fence of a supported language with no later closing
\* fence line of the same indentation is not matched, and when it is the
\* only opening fence of the text, the text passes through the block step
\* unchanged.
C3_UnclosedPassesThrough ==
    (pc = "done" /\ err = "none") =>
        LET ls == SplitLines(src)
            Unclosed == {a \in 1..Len(ls) :
                            /\ IsOpeningFence(ls[a])
                            /\ \E l \in SupportedLanguages : FenceLanguage(ls[a]) = <<l>>
                            /\ ClosingLine(ls, a) = 0}
        IN  \A a \in Unclosed :
              /\ \A k \in DOMAIN CondMatches(src, 1) :
                   CondMatches(src, 1)[k].open
                       # LineStart(ls, a) + Len(FenceIndent(ls[a]))
              /\ (\A b \in 1..Len(ls) : IsOpeningFence(ls[b]) => b = a)
                   => resolved = src

\* ------------------------------------------------- texts with code blocks

\* Lines of a text with fenced code blocks: an opening fence with and
\* without the ignore attribute, a closing fence, an indented opening
\* fence, an indented closing fence directly followed by a second fence
\* marker, the fences of a conditional block.
CodeLineKinds ==
    { <<TICKS, "py", SP, "ignore">>, <<TICKS, "py">>, <<TICKS>>,
      <<SP, TICKS, "py", SP, "ignore">>, <<SP, TICKS, TICKS>>,
      <<FENCE, "python">>, <<FENCE>> }

\* _apply_conditional_rendering, chained, and _extract_code_blocks on texts
\* with code blocks.
InitIgnore ==
    /\ src \in TextsOf(CodeLineKinds, MaxCodeLines)
    /\ lang \in SupportedLanguages
    /\ InitCall

NextIgnore ==
    \/ ApplyConditionalRendering
    \/ CallAgain
    \/ ExtractCodeBlocks

SpecIgnore == InitIgnore /\ [][NextIgnore]_vars

\* ------------------------------------------------------------------- C4

\* No code block matched in t declares the ignore attribute.
NoIgnoreBlock(t) ==
    LET ms == CodeMatches(t, 1)
    IN  \A k \in DOMAIN ms : ~HasAttribute(ms[k].attributes, "ignore")

\* C4 as claimed: a second call on an output without a conditional fence
\* returns it unchanged.
C4_SecondPassNoOp ==
    (pc = "done" /\ err = "none" /\ passes >= 2 /\ ~Contains(src, FENCE))
        => ret = src

\* C4 as amended: a second call on an output without a conditional fence
\* and without a code block that declares ignore returns it unchanged.
C4_ResolvedTextIsFixpoint ==
    (/\ pc = "done" /\ err = "none" /\ passes >= 2
     /\ ~Contains(src, FENCE) /\ NoIgnoreBlock(src))
        => ret = src

\* C4 witness: the first call resolved a conditional block and kept a code
\* block, the second call returned its output unchanged.
C4_Witness ==
    /\ pc = "done"
    /\ passes = 2
    /\ Contains(orig, FENCE)
    /\ ~Contains(src, FENCE)
    /\ CodeMatches(src, 1) # <<>>
    /\ NoIgnoreBlock(src)
    /\ ret = src

\* ------------------------------------------------------------------- C5

\* A line that opens a code block: indent, fence, language, attributes.
IsCodeOpen(l) ==
    LET i == Run(l, 1, HSpace)
        w == Run(l, i + 2, WordTokens)
    IN  /\ At(l, i + 1) = TICKS
        /\ w >= 1
        /\ ~Contains(Slice(l, i + 2, Len(l)), TICKS)

\* A line that closes a code block: indent, fence.
IsCodeClose(l) ==
    /\ At(l, Len(l)) = TICKS
    /\ Run(l, 1, HSpace) = Len(l) - 1

\* The first line after a that closes the code block opened on line a.
CodeClosingLine(ls, a) ==
    LET J == {j \in (a + 1)..Len(ls) :
                 /\ IsCodeClose(ls[j])
                 /\ Run(ls[j], 1, HSpace) = Run(ls[a], 1, HSpace)}
    IN  IF J = {} THEN 0 ELSE MinOf(J)

\* The fences of ls[a..] are well-formed: a conditional block is an
\* opening fence and the closing fence of its indentation (open holds the
\* indentation while inside one), a code block is an opening fence, lines
\* without a fence and the closing fence of its indentation, and a code
\* block lies inside or outside a conditional block.
RECURSIVE WellFormedDocFrom(_, _, _)
WellFormedDocFrom(ls, a, open) ==
    IF a > Len(ls) THEN open = NoValue
    ELSE IF IsFenceLine(ls[a])
         THEN IF open = NoValue
              THEN /\ IsOpeningFence(ls[a])
                   /\ WellFormedDocFrom(ls, a + 1, FenceIndent(ls[a]))
              ELSE /\ IsClosingFence(ls[a])
                   /\ FenceIndent(ls[a]) = open
                   /\ WellFormedDocFrom(ls, a + 1, NoValue)
    ELSE IF Contains(ls[a], TICKS)
         THEN LET c == CodeClosingLine(ls, a)
              IN  /\ IsCodeOpen(ls[a])
                  /\ c # 0
                  /\ \A j \in (a + 1)..(c - 1) :
                       ~Contains(ls[j], TICKS) /\ ~Contains(ls[j], FENCE)
                  /\ WellFormedDocFrom(ls, c + 1, open)
    ELSE ~Contains(ls[a], FENCE) /\ WellFormedDocFrom(ls, a + 1, open)

WellFormedDoc(t) == WellFormedDocFrom(SplitLines(t), 1, NoValue)

\* The lines of t that open a code block declaring ignore.
IgnoreOpenLines(t) ==
    LET ls == SplitLines(t)
    IN  {a \in 1..Len(ls) : IsCodeOpen(ls[a]) /\ Contains(ls[a], "ignore")}

\* Every code block of the source that declares ignore is in the list.
IgnoredAreExtracted ==
    extracted # NoValue =>
        \A a \in IgnoreOpenLines(orig) :
            \E k \in DOMAIN extracted :
                /\ extracted[k].line = a - 1
                /\ HasAttribute(extracted[k].attributes, "ignore")

\* C5 as claimed: no code block declaring ignore is left in the output,
\* and every such block of the source is in the extracted list.
C5_IgnoredNeverRendered ==
    (pc = "done" /\ err = "none" /\ passes = 1)
        => NoIgnoreBlock(ret) /\ IgnoredAreExtracted

\* C5 as amended: in a text whose code fences and conditional fences are
\* well-formed, nothing of a code block declaring ignore is left in the
\* output, and every such block of the source is in the extracted list.
C5_IgnoredStrippedWhenWellFormed ==
    (pc = "done" /\ err = "none" /\ passes = 1 /\ WellFormedDoc(src))
        => /\ NoIgnoreBlock(ret)
           /\ ~Contains(ret, "ignore")
           /\ IgnoredAreExtracted

\* C5 witness: a code block declaring ignore inside a conditional block
\* kept for the target language is absent from the output and present in
\* the extracted list.
C5_Witness ==
    /\ pc = "done"
    /\ passes = 1
    /\ WellFormedDoc(src)
    /\ \E k \in DOMAIN CondMatches(src, 1) :
         /\ CondMatches(src, 1)[k].language = <<lang>>
         /\ Contains(CondMatches(src, 1)[k].content, "ignore")
    /\ Contains(resolved, "ignore")
    /\ ~Contains(ret, "ignore")
    /\ extracted # NoValue
    /\ extracted # <<>>

\* ------------------------------------------------------ replace_constants

\* Number of tokens of an input text of replace_constants.
MaxTokens == 5

\* CONSTANTS_MAP with the entries the unit tests add, and an entry whose
\* value is the empty string.
TestMap ==
    [n \in {<<"K">>, <<"E">>} |->
        IF n = <<"K">> THEN <<"final-value">> ELSE <<>>]

\* (?<!\\)\$\[(?P<constant>[^\]]+)\]  matches at position p: the name is
\* the run of tokens up to the first "]", and it is not empty.
ConstantMatchOk(t, p) ==
    /\ At(t, p) = DOLLAR
    /\ At(t, p - 1) # BSL
    /\ RunNot(t, p + 1, {RBR}) >= 1
    /\ At(t, p + 1 + RunNot(t, p + 1, {RBR})) = RBR

\* The match at position p: its name and the position after it.
ConstantMatchAt(t, p) ==
    LET n == RunNot(t, p + 1, {RBR})
    IN  [start |-> p, constant |-> Slice(t, p + 1, p + n), end |-> p + n + 2]

\* The start of the leftmost match from position p on, 0 without one.
ConstantSearch(t, p) ==
    LET P == {q \in p..Len(t) : ConstantMatchOk(t, q)}
    IN  IF P = {} THEN 0 ELSE MinOf(P)

\* A callback that takes an empty value for a missing one.
replace_unless_empty(t, m, map) ==
    IF m.constant \notin DOMAIN map \/ map[m.constant] = <<>>
    THEN [text |-> Slice(t, m.start, m.end - 1), logged |-> <<m.constant>>]
    ELSE [text |-> map[m.constant], logged |-> <<>>]

\* _replace: the replacement of one match and what it logs.
replace_constant(t, m, map) ==
    IF m.constant \notin DOMAIN map
    THEN [text |-> Slice(t, m.start, m.end - 1), logged |-> <<m.constant>>]
    ELSE [text |-> map[m.constant], logged |-> <<>>]

\* CONSTANT_PATTERN.sub(_replace, markdown), from position p on.
RECURSIVE ConstantSub(_, _, _)
ConstantSub(t, p, map) ==
    LET s == ConstantSearch(t, p)
    IN  IF s = 0 THEN [text |-> Slice(t, p, Len(t)), logged |-> <<>>]
        ELSE LET m == ConstantMatchAt(t, s)
                 r == replace_constant(t, m, map)
                 rest == ConstantSub(t, m.end, map)
             IN  [text |-> Slice(t, p, s - 1) \o r.text \o rest.text,
                  logged |-> r.logged \o rest.logged]

\* re.sub(r"\\(\$\[)", r"\1", substituted)
RECURSIVE UnescapeConstants(_)
UnescapeConstants(t) ==
    IF t = <<>> THEN <<>>
    ELSE IF Head(t) = BSL /\ At(t, 2) = DOLLAR
         THEN <<DOLLAR>> \o UnescapeConstants(Tail(Tail(t)))
         ELSE <<Head(t)>> \o UnescapeConstants(Tail(t))

\* The two passes in the other order: unescape, then substitute.
replace_constants_unescape_first(t, map) ==
    ConstantSub(UnescapeConstants(t), 1, map)

\* replace_constants(markdown, file_path): the text returned and the names
\* logged as missing.
replace_constants(t, map) ==
    LET substituted == ConstantSub(t, 1, map)
    IN  [text |-> UnescapeConstants(substituted.text),
         logged |-> substituted.logged]

\* A call of replace_constants(src, file_path).
ReplaceConstants ==
    /\ pc = "start"
    /\ \E r \in {replace_constants(src, constantsMap)} :
           /\ ret' = r.text
           /\ warnings' = r.logged
    /\ err' = "none"
    /\ pc' = "done"
    /\ passes' = passes + 1
    /\ call' = "replace_constants"
    /\ UNCHANGED <<src, lang, env, constantsMap, resolved, unescaped, linked,
                   orig, extracted>>
    /\ UNCHANGED otherVars

\* Tokens of the texts given to replace_constants: the parts of a constant
\* token, the backslash, a known name, a name with an empty value, an
\* unknown name (also a word of the text).
ConstTokens == {DOLLAR, RBR, BSL, "K", "E", "U"}

\* replace_constants on texts of at most MaxTokens tokens.
InitConst ==
    /\ src \in UNION {[1..n -> ConstTokens] : n \in 0..MaxTokens}
    /\ constantsMap \in {EmptyMap, TestMap}
    /\ lang = None
    /\ env = "python"
    /\ InitLocals

NextConst == ReplaceConstants

SpecConst == InitConst /\ [][NextConst]_vars

\* --------------------------------------------------------- C9 and C10

NameTokens == {"K", "E", "U"}

\* t holds at position p a constant token with a one-word name.
ConstantTokenAt(t, p) ==
    /\ At(t, p) = DOLLAR
    /\ At(t, p + 1) \in NameTokens
    /\ At(t, p + 2) = RBR

\* An unescaped "$[" before position p still waits for its "]".
OpenBefore(t, p) ==
    \E q \in 1..(p - 1) :
        /\ t[q] = DOLLAR
        /\ At(t, q - 1) # BSL
        /\ \A j \in (q + 1)..(p - 1) : t[j] # RBR

\* An unescaped token with a known name at position p of src.
KnownTokenAt(p) ==
    /\ ConstantTokenAt(src, p)
    /\ At(src, p - 1) # BSL
    /\ <<src[p + 1]>> \in DOMAIN constantsMap

\* The output is the output of what precedes the token at p..q, then mid,
\* then the output of what follows it.
ReplacedBy(p, q, mid) ==
    ret = replace_constants(Slice(src, 1, p - 1), constantsMap).text
          \o mid
          \o replace_constants(Slice(src, q + 1, Len(src)), constantsMap).text

\* Every match in src has an unknown name, and no "$[" is escaped.
OnlyUnknownTokens ==
    /\ \A p \in 1..Len(src) :
         ConstantMatchOk(src, p) =>
             ConstantMatchAt(src, p).constant \notin DOMAIN constantsMap
    /\ \A p \in 1..Len(src) : src[p] = DOLLAR => At(src, p - 1) # BSL

\* C9 as claimed: every unescaped token with a known name is replaced by
\* its value and the rest of the text is what replace_constants makes of
\* it; a text with unknown names only is returned as it is; no call
\* raises.
C9_EveryKnownTokenReplaced ==
    (pc = "done" /\ call = "replace_constants") =>
        /\ err = "none"
        /\ \A p \in 1..Len(src) :
             KnownTokenAt(p) =>
                 ReplacedBy(p, p + 2, constantsMap[<<src[p + 1]>>])
        /\ OnlyUnknownTokens => ret = src

\* C9 as amended: every unescaped token with a known name that does not
\* lie behind an unescaped "$[" still waiting for its "]" is replaced by
\* its value, the empty one included; a text with unknown names only is
\* returned as it is; no call raises.
C9_KnownTokensReplaced ==
    (pc = "done" /\ call = "replace_constants") =>
        /\ err = "none"
        /\ \A p \in 1..Len(src) :
             (KnownTokenAt(p) /\ ~OpenBefore(src, p)) =>
                 ReplacedBy(p, p + 2, constantsMap[<<src[p + 1]>>])
        /\ OnlyUnknownTokens => ret = src

\* C9 witness: a token whose value is the empty string was removed from
\* between two other tokens.
C9_Witness ==
    /\ pc = "done"
    /\ call = "replace_constants"
    /\ \E p \in 2..(Len(src) - 3) :
         /\ KnownTokenAt(p)
         /\ src[p + 1] = "E"
         /\ ~OpenBefore(src, p)
    /\ Len(ret) = Len(src) - 3

\* C10: an escaped token, of a known name or not, is not substituted: the
\* output holds the token without its backslash between the outputs of
\* what precedes and what follows it.
C10_EscapedTokenKept ==
    (pc = "done" /\ call = "replace_constants") =>
        \A p \in 1..Len(src) :
            (src[p] = BSL /\ ConstantTokenAt(src, p + 1)) =>
                ReplacedBy(p, p + 3, Slice(src, p + 1, p + 3))

\* C10 witness: an escaped token of a known name came out without its
\* backslash, next to a token that was substituted or kept.
C10_Witness ==
    /\ pc = "done"
    /\ call = "replace_constants"
    /\ constantsMap = TestMap
    /\ Len(src) = 5
    /\ \E p \in 1..2 :
         /\ src[p] = BSL
         /\ ConstantTokenAt(src, p + 1)
         /\ src[p + 2] = "K"
         /\ Slice(ret, p, p + 2) = <<DOLLAR, "K", RBR>>
    /\ Len(ret) = 4

\* ------------------------------------------------- cross-references

\* CROSS_REFERENCE_PATTERN matches at position p: "@[", a run of tokens
\* up to the first "]", not empty, and the "]".
RefMatchOk(t, p) ==
    /\ At(t, p) = AT
    /\ RunNot(t, p + 1, {RBR}) >= 1
    /\ At(t, p + 1 + RunNot(t, p + 1, {RBR})) = RBR

\* The match at position p.  The first alternative, @[title][link_name],
\* is tried first; the second one, @[link_name], when the first fails.
RefMatchAt(t, p) ==
    LET n == RunNot(t, p + 1, {RBR})
        q == p + 1 + n
        k == RunNot(t, q + 2, {RBR})
    IN  IF At(t, q + 1) = LBR /\ k >= 1 /\ At(t, q + 2 + k) = RBR
        THEN [start |-> p, titled |-> TRUE, title |-> Slice(t, p + 1, q - 1),
              link_name |-> Slice(t, q + 2, q + 1 + k), end |-> q + 3 + k]
        ELSE [start |-> p, titled |-> FALSE, title |-> <<>>,
              link_name |-> Slice(t, p + 1, q - 1), end |-> q + 1]

\* The start of the leftmost match from position p on, 0 without one.
RefSearch(t, p) ==
    LET P == {q \in p..Len(t) : RefMatchOk(t, q)}
    IN  IF P = {} THEN 0 ELSE MinOf(P)

\* The non-overlapping matches of t from position p on, left to right.
RECURSIVE RefMatches(_, _)
RefMatches(t, p) ==
    LET s == RefSearch(t, p)
    IN  IF s = 0 THEN <<>>
        ELSE <<RefMatchAt(t, s)>> \o RefMatches(t, RefMatchAt(t, s).end)

\* SCOPE_LINK_MAPS: three of its entries.
SCOPE_LINK_MAPS ==
    [scope \in {"python", "js"} |->
        IF scope = "python"
        THEN [l \in {<<"StateGraph">>} |->
                 "https://langchain-ai.github.io/langgraph/reference/graphs/#langgraph.graph.StateGraph"]
        ELSE [l \in {<<"StateGraph">>, <<"initChatModel">>} |->
                 IF l = <<"StateGraph">>
                 THEN "https://langchain-ai.github.io/langgraphjs/reference/classes/langgraph.StateGraph.html"
                 ELSE "https://v03.api.js.langchain.com/functions/langchain.chat_models_universal.initChatModel.html"]]

\* The link registry of a scope; a scope without a registry has no label.
LinkRegistry(scope) ==
    IF scope \in DOMAIN SCOPE_LINK_MAPS THEN SCOPE_LINK_MAPS[scope]
    ELSE [l \in {} |-> ""]

\* The replacement of one cross-reference: the link [display](url) when
\* the label is in the registry, display being the title or else the
\* label; the token itself and a warning when it is not.
resolve_reference(t, m, scope) ==
    IF m.link_name \notin DOMAIN LinkRegistry(scope)
    THEN [text |-> Slice(t, m.start, m.end - 1), logged |-> <<m.link_name>>]
    ELSE [text |-> <<LBR>> \o (IF m.titled THEN m.title ELSE m.link_name)
                     \o <<RBR, LPAREN, LinkRegistry(scope)[m.link_name],
                          RPAREN>>,
          logged |-> <<>>]

\* The substitution of every cross-reference of t from position p on.
RECURSIVE AutolinkSub(_, _, _)
AutolinkSub(t, p, scope) ==
    LET s == RefSearch(t, p)
    IN  IF s = 0 THEN [text |-> Slice(t, p, Len(t)), logged |-> <<>>]
        ELSE LET m == RefMatchAt(t, s)
                 r == resolve_reference(t, m, scope)
                 rest == AutolinkSub(t, m.end, scope)
             IN  [text |-> Slice(t, p, s - 1) \o r.text \o rest.text,
                  logged |-> r.logged \o rest.logged]

\* replace_autolinks(content, file_path, default_scope=scope): the text
\* returned and the labels warned about.  It does not raise.
replace_autolinks(t, scope) == AutolinkSub(t, 1, scope)

\* ------------------------------------------------- preprocess_markdown

\* Number of lines of an input text of preprocess_markdown.
MaxPipeLines == 3

\* The target language of a call: the argument, or else TARGET_LANGUAGE,
\* or else "python".
effective_target_language(target_language, environ) ==
    IF target_language # None THEN target_language
    ELSE IF environ # None THEN environ
    ELSE "python"

\* The two passes in the other order: conditional blocks, then
\* cross-references.
preprocess_conditional_first(t, target_language, default_scope, environ) ==
    LET target == effective_target_language(target_language, environ)
        scope == IF default_scope = None THEN target ELSE default_scope
        r == apply_conditional_rendering(t, target)
        a == IF r.err = "none" THEN replace_autolinks(r.ret, scope)
             ELSE [text |-> NoValue, logged |-> <<>>]
    IN  [linked |-> a.text, logged |-> a.logged, resolved |-> r.resolved,
         unescaped |-> r.unescaped, ret |-> a.text, err |-> r.err]

\* preprocess_markdown(content, file_path, target_language=...,
\* default_scope=...): its locals, its log and its outcome.
preprocess_markdown(t, target_language, default_scope, environ) ==
    LET target == effective_target_language(target_language, environ)
        scope == IF default_scope = None THEN target ELSE default_scope
        a == replace_autolinks(t, scope)
        r == apply_conditional_rendering(a.text, target)
    IN  [linked |-> a.text, logged |-> a.logged, resolved |-> r.resolved,
         unescaped |-> r.unescaped, ret |-> r.ret, err |-> r.err]

\* A call of preprocess_markdown(src, file_path, target_language=lang).
Preprocess ==
    /\ pc = "start"
    /\ \E r \in {preprocess_markdown(src, lang, None, env)} :
           /\ linked' = r.linked
           /\ warnings' = r.logged
           /\ resolved' = r.resolved
           /\ unescaped' = r.unescaped
           /\ ret' = r.ret
           /\ err' = r.err
    /\ pc' = "done"
    /\ passes' = passes + 1
    /\ call' = "preprocess_markdown"
    /\ UNCHANGED <<src, lang, env, constantsMap, orig, extracted>>
    /\ UNCHANGED otherVars

\* Lines of a text given to the pipeline: conditional fences, a
\* cross-reference of a label of both scopes, of no scope, one with a
\* title and a label of the js scope, a constant token, a line of content.
PipeLineKinds ==
    { <<FENCE, "python">>, <<FENCE, "js">>, <<FENCE>>,
      <<AT, "StateGraph", RBR>>, <<AT, "Missing", RBR>>,
      <<AT, "T", RBR, LBR, "initChatModel", RBR>>,
      <<DOLLAR, "K", RBR>>, <<"A">> }

\* preprocess_markdown and _apply_conditional_rendering, with a target
\* language that is valid, invalid or not given, TARGET_LANGUAGE set or
\* not, and the constants of the unit tests.
InitPipe ==
    /\ src \in TextsOf(PipeLineKinds, MaxPipeLines)
    /\ lang \in {"python", "js", "ruby", None}
    /\ env \in {None, "js"}
    /\ constantsMap = TestMap
    /\ InitLocals

NextPipe == Preprocess \/ ApplyConditionalRendering

SpecPipe == InitPipe /\ [][NextPipe]_vars

\* ------------------------------------------------------------------- C6

\* C6: a call with a target language given and other than python and js
\* raises ValueError and returns nothing, whatever the text.
C6_InvalidTargetRaises ==
    (pc = "done" /\ lang \notin {"python", "js", None})
        => err = "ValueError" /\ ret = NoValue

\* C6 witness: preprocess_markdown raised on a text without a conditional
\* fence, with TARGET_LANGUAGE set to a valid language.
C6_Witness ==
    /\ pc = "done"
    /\ call = "preprocess_markdown"
    /\ lang = "ruby"
    /\ env = "js"
    /\ src # <<>>
    /\ ~Contains(src, FENCE)
    /\ err = "ValueError"

\* ------------------------------------------------------------------- C7

\* Position p of t lies in a conditional block dropped for the target.
InDropped(t, target, p) ==
    \E k \in DOMAIN CondMatches(t, 1) :
        LET m == CondMatches(t, 1)[k]
        IN  /\ \E l \in SupportedLanguages : m.language = <<l>>
            /\ m.language # <<target>>
            /\ m.start <= p
            /\ p < m.end

\* The labels of the matches ms that are not in the registry of the scope
\* and, when outside holds, not in a dropped block of t.
RECURSIVE UnresolvedLabels(_, _, _, _)
UnresolvedLabels(ms, t, target, outside) ==
    IF ms = <<>> THEN <<>>
    ELSE (IF /\ Head(ms).link_name \notin DOMAIN LinkRegistry(target)
             /\ (outside => ~InDropped(t, target, Head(ms).start))
          THEN <<Head(ms).link_name>> ELSE <<>>)
         \o UnresolvedLabels(Tail(ms), t, target, outside)

\* Number of cross-reference tokens and links in t.
RefMarks(t) == Cardinality({i \in 1..Len(t) : t[i] \in {AT, LPAREN}})

\* Cross-references are resolved on the text given, conditional blocks on
\* the result, and the output holds a token or a link for exactly the
\* cross-references outside the dropped blocks.
ReferencesResolvedFirst ==
    LET target == effective_target_language(lang, env)
        ms == RefMatches(src, 1)
    IN  /\ linked = replace_autolinks(src, target).text
        /\ ret = apply_conditional_rendering(linked, target).ret
        /\ RefMarks(ret) =
             Cardinality({k \in DOMAIN ms :
                             ~InDropped(src, target, ms[k].start)})

C8_PipelineSubstitutesConstants ==
    (/\ pc = "done" /\ call = "preprocess_markdown" /\ err = "none"
     /\ ~Contains(src, FENCE) /\ ~Contains(src, AT)
     /\ \E p \in 1..Len(src) : KnownTokenAt(p))
        => ret = replace_constants(src, constantsMap).text

\* ------------------------------------------------------- link registry

\* Number of manual link maps.
MaxManualMaps == 1

\* Number of auto-generated link maps.
MaxAutoMaps == 2

\* A string that starts with "http": "http" itself (the start of a longer
\* word) or the scheme of an absolute URL.
HttpWord == "http"
HttpsScheme == "https://"

\* value.startswith("http")
StartsWithHttp(value) == value # <<>> /\ Head(value) \in {HttpWord, HttpsScheme}

\* The value is an absolute URL: it starts with a scheme.
IsAbsoluteUrl(value) == value # <<>> /\ Head(value) = HttpsScheme

\* d.update(e)
DictUpdate(d, e) ==
    [l \in DOMAIN d \cup DOMAIN e |-> IF l \in DOMAIN e THEN e[l] ELSE d[l]]

\* The position in merged of the key (host, scope), 0 when it is not a key.
KeyIndex(merged, host, scope) ==
    LET K == {k \in DOMAIN merged :
                 merged[k].host = host /\ merged[k].scope = scope}
    IN  IF K = {} THEN 0 ELSE MinOf(K)

\* if key not in merged: merged[key] = {};  merged[key].update(links).
\* merged is the dict as the sequence of its items in insertion order.
MergeOne(merged, lm) ==
    LET k == KeyIndex(merged, lm.host, lm.scope)
    IN  IF k = 0
        THEN Append(merged, [host |-> lm.host, scope |-> lm.scope,
                             links |-> lm.links])
        ELSE [merged EXCEPT ![k].links = DictUpdate(@, lm.links)]

\* for link_map in maps: ... , from the dict merged on.
RECURSIVE MergeAll(_, _)
MergeAll(merged, maps) ==
    IF maps = <<>> THEN merged
    ELSE MergeAll(MergeOne(merged, Head(maps)), Tail(maps))

\* _merge_link_maps(manual_maps, auto_maps)
merge_link_maps(manual_maps, auto_maps) ==
    MergeAll(MergeAll(<<>>, auto_maps), manual_maps)

\* The URL of an entry: the value when it starts with "http", the host
\* followed by the value when it does not.
full_url(host, value) ==
    IF ~StartsWithHttp(value) THEN host \o value ELSE value

\* _enumerate_links(scope) over the list link_maps.
RECURSIVE enumerate_links(_, _)
enumerate_links(link_maps, scope) ==
    IF link_maps = <<>> THEN [l \in {} |-> <<>>]
    ELSE LET lm == link_maps[Len(link_maps)]
             before == enumerate_links(SubSeq(link_maps, 1, Len(link_maps) - 1),
                                       scope)
         IN  IF lm.scope = scope
             THEN DictUpdate(before, [l \in DOMAIN lm.links |->
                                         full_url(lm.host, lm.links[l])])
             ELSE before

\* LINK_MAPS = _merge_link_maps(MANUAL_LINK_MAPS, AUTO_GENERATED_LINK_MAPS)
MergeLinkMaps ==
    /\ pc = "start"
    /\ linkMaps' = merge_link_maps(manualMaps, autoMaps)
    /\ pc' = "merged"
    /\ UNCHANGED callData
    /\ UNCHANGED <<manualMaps, autoMaps, scopeLinkMaps, snipVars, tarVars, moreVars>>

\* SCOPE_LINK_MAPS = {"python": _enumerate_links("python"), "js": ...}
EnumerateLinks ==
    /\ pc = "merged"
    /\ scopeLinkMaps' = [scope \in {"python", "js"} |->
                            enumerate_links(linkMaps, scope)]
    /\ pc' = "enumerated"
    /\ UNCHANGED callData
    /\ UNCHANGED <<manualMaps, autoMaps, linkMaps, snipVars, tarVars, moreVars>>

\* Two hosts of the python scope, the first one also of the js scope.
LinkHosts ==
    { <<HttpsScheme, "langchain-ai.github.io/langgraph/">>,
      <<HttpsScheme, "reference.langchain.com/python/">> }

\* Values of an entry: a path relative to the host, an absolute URL, and a
\* relative path whose first directory starts with "http".
LinkValues ==
    { <<"reference/graphs/">>,
      <<HttpsScheme, "python.langchain.com/api_reference/">>,
      <<HttpWord, "_client/index.html">> }

\* The link maps: an entry for one label, under a host and a scope.
LinkMapKinds ==
    { [host |-> h, scope |-> sc, links |-> [l \in {<<"StateGraph">>} |-> v]] :
        h \in LinkHosts, sc \in {"python", "js"}, v \in LinkValues }
    \ { lm \in [host : LinkHosts, scope : {"js"},
                links : [{<<"StateGraph">>} -> LinkValues]] :
          lm.host = <<HttpsScheme, "reference.langchain.com/python/">> }

\* No call of the preprocessor is under way.
InitIdleCall ==
    /\ src = <<>>
    /\ lang = None
    /\ env = "python"
    /\ constantsMap = EmptyMap
    /\ pc = "start"
    /\ resolved = NoValue
    /\ unescaped = NoValue
    /\ ret = NoValue
    /\ err = "none"
    /\ warnings = <<>>
    /\ call = "none"
    /\ linked = NoValue
    /\ passes = 0
    /\ orig = src
    /\ extracted = NoValue

\* The registry built from at most MaxManualMaps manual and MaxAutoMaps
\* auto-generated maps.
InitLinks ==
    /\ manualMaps \in UNION {[1..n -> LinkMapKinds] : n \in 0..MaxManualMaps}
    /\ autoMaps \in UNION {[1..n -> LinkMapKinds] : n \in 0..MaxAutoMaps}
    /\ linkMaps = NoValue
    /\ scopeLinkMaps = NoValue
    /\ InitNoExport
    /\ InitNoTar
    /\ InitNoMore
    /\ InitIdleCall

NextLinks == MergeLinkMaps \/ EnumerateLinks

SpecLinks == InitLinks /\ [][NextLinks]_vars

\* ------------------------------------------------------------------ C11

\* The URLs built from the manual entries of a label in a scope.
ManualUrls(scope, label) ==
    { full_url(manualMaps[k].host, manualMaps[k].links[label]) :
        k \in {k \in DOMAIN manualMaps :
                  /\ manualMaps[k].scope = scope
                  /\ label \in DOMAIN manualMaps[k].links} }

\* C11: a label with a manual entry in a scope resolves, in that scope,
\* to the URL built from a manual entry, whatever the auto-generated maps
\* hold and whatever the hosts are.
C11_ManualEntryWins ==
    pc = "enumerated" =>
        \A scope \in {"python", "js"} :
            \A k \in DOMAIN manualMaps :
                \A label \in DOMAIN manualMaps[k].links :
                    manualMaps[k].scope = scope =>
                        /\ label \in DOMAIN scopeLinkMaps[scope]
                        /\ scopeLinkMaps[scope][label]
                               \in ManualUrls(scope, label)

\* ------------------------------------------------------------------ C12

\* The last map of the scope in LINK_MAPS that has the label: its entry
\* is the winning one.
WinningMap(scope, label) ==
    linkMaps[MaxOf({k \in DOMAIN linkMaps :
                       /\ linkMaps[k].scope = scope
                       /\ label \in DOMAIN linkMaps[k].links})]

\* C12: the labels of a scope are those of its maps, and the URL of each
\* is the value of the winning entry when that is an absolute URL, and
\* the host followed by the value when it is not.
C12_UrlIsHostPlusPath ==
    pc = "enumerated" =>
        \A scope \in {"python", "js"} :
            /\ DOMAIN scopeLinkMaps[scope] =
                 UNION {DOMAIN linkMaps[k].links :
                           k \in {k \in DOMAIN linkMaps :
                                     linkMaps[k].scope = scope}}
            /\ \A label \in DOMAIN scopeLinkMaps[scope] :
                 LET w == WinningMap(scope, label)
                 IN  scopeLinkMaps[scope][label] =
                         IF IsAbsoluteUrl(w.links[label]) THEN w.links[label]
                         ELSE w.host \o w.links[label]

\* ------------------------------------------------ _extract_code_snippets

\* Number of lines of a text scanned for code blocks.
MaxExtractLines == 4

\* A fold step that merges on the language alone.
merge_same_language(acc, block) ==
    IF acc # <<>> /\ acc[Len(acc)].language = block.language
    THEN [acc EXCEPT ![Len(acc)].code_blocks = Append(@, block)]
    ELSE Append(acc, [language |-> block.language, code_blocks |-> <<block>>])

\* A fold step that merges on the attribute alone.
merge_any_language(acc, block) ==
    IF acc # <<>> /\ HasAttribute(block.attributes, "merge-before")
    THEN [acc EXCEPT ![Len(acc)].code_blocks = Append(@, block)]
    ELSE Append(acc, [language |-> block.language, code_blocks |-> <<block>>])

\* A fold step that merges into the first snippet of the block's language,
\* not into the last snippet.
merge_into_first(acc, block) ==
    LET same == {i \in DOMAIN acc : acc[i].language = block.language}
    IN  IF same # {} /\ HasAttribute(block.attributes, "merge-before")
        THEN [acc EXCEPT ![MinOf(same)].code_blocks = Append(@, block)]
        ELSE Append(acc, [language |-> block.language, code_blocks |-> <<block>>])

\* reduce_code_blocks(acc, block)
reduce_code_blocks(acc, block) ==
    IF /\ acc # <<>>
       /\ acc[Len(acc)].language = block.language
       /\ HasAttribute(block.attributes, "merge-before")
    THEN [acc EXCEPT ![Len(acc)].code_blocks = Append(@, block)]
    ELSE Append(acc, [language |-> block.language, code_blocks |-> <<block>>])

\* reduce(reduce_code_blocks, code_blocks, acc)
RECURSIVE Reduce(_, _)
Reduce(acc, code_blocks) ==
    IF code_blocks = <<>> THEN acc
    ELSE Reduce(reduce_code_blocks(acc, Head(code_blocks)), Tail(code_blocks))

\* _extract_code_snippets(content): the blocks and the snippets.
extract_code_snippets(content) ==
    LET code_blocks == extract_code_blocks(content)
    IN  [code_blocks |-> code_blocks, snippets |-> Reduce(<<>>, code_blocks)]

\* A call of _extract_code_snippets(src).
ExtractCodeSnippets ==
    /\ pc = "start"
    /\ \E r \in {extract_code_snippets(src)} :
           /\ extracted' = r.code_blocks
           /\ snippets' = r.snippets
    /\ pc' = "extracted"
    /\ UNCHANGED <<src, lang, env, constantsMap, resolved, unescaped, ret, err,
                   warnings, call, linked, passes, orig>>
    /\ UNCHANGED <<linkVars, dirs, files, exportErr, tarVars, moreVars>>

\* The languages of the alias table and one outside it.
FenceLanguages ==
    {"py", "python", "js", "javascript", "ts", "typescript", "ruby"}

\* Lines of a text with code blocks of the language l: an opening fence
\* with the export attribute, one without attributes, a closing fence, an
\* indented opening fence of a language outside the alias table with the
\* ignore attribute and trailing spaces, an indented closing fence, a line
\* of content.
ExtractLineKinds(l) ==
    { <<TICKS, l, SP, "export">>, <<TICKS, l>>, <<TICKS>>,
      <<SP, TICKS, "ruby", SP, "ignore", SP>>, <<SP, TICKS>>, <<"A">> }

InitExtract ==
    /\ \E l \in FenceLanguages :
           src \in TextsOf(ExtractLineKinds(l), MaxExtractLines)
    /\ lang = None
    /\ env = "python"
    /\ constantsMap = EmptyMap
    /\ InitLocals

NextExtract == ExtractCodeSnippets

SpecExtract == InitExtract /\ [][NextExtract]_vars

\* ------------------------------------------------------------------ C13

\* The alias table as the claim gives it.
AliasTable ==
    [l \in {"py", "js", "javascript", "ts", "typescript"} |->
        IF l = "py" THEN "python" ELSE "typescript"]

NormalizedLanguage(l) ==
    IF Len(l) = 1 /\ l[1] \in DOMAIN AliasTable THEN <<AliasTable[l[1]]>>
    ELSE l

\* The attribute string of an opening fence line: what follows the
\* language and the spaces after it, without trailing whitespace.
FenceAttributes(l) ==
    LET i == Run(l, 1, HSpace)
        w == Run(l, i + 2, WordTokens)
        g == Run(l, i + 2 + w, {SP})
    IN  RStrip(Slice(l, i + 2 + w + g, Len(l)))

\* The attribute string contains export or ignore.
Marked(attributes) ==
    Contains(attributes, "export") \/ Contains(attributes, "ignore")

\* The lines of t that open a code block declaring export or ignore.
MarkedOpenLines(t) ==
    LET ls == SplitLines(t)
    IN  {a \in 1..Len(ls) :
            IsCodeOpen(ls[a]) /\ Marked(FenceAttributes(ls[a]))}

RECURSIVE PositionAt(_, _)
PositionAt(t, p) ==
    IF p = 1 THEN [line |-> 0, column |-> 0]
    ELSE LET q == PositionAt(t, p - 1)
         IN  IF t[p - 1] = NL
             THEN [line |-> q.line + 1, column |-> 0]
             ELSE [line |-> q.line, column |-> q.column + Len(t[p - 1])]

\* The start of the block of an opening fence: the position p is followed
\* by the fence's indentation, the fence marker and a language, and the
\* block pattern matches from p on.
IsBlockStart(t, p) ==
    LET i == Run(t, p, HSpace)
    IN  /\ At(t, p + i) = TICKS
        /\ Run(t, p + i + 1, WordTokens) >= 1
        /\ \E k \in DOMAIN CodeMatches(t, 1) : CodeMatches(t, 1)[k].start = p

\* C14: the line and column of every recorded block are the zero-based
\* position of the start of its block, where the opening fence begins:
\* the line counts the newlines before it and the column the characters
\* since the last of them, or since the start of the text on line 0.
C14_PositionOfOpeningFence ==
    pc = "extracted" =>
        \A j \in DOMAIN extracted :
            \E p \in 1..Len(src) :
                /\ IsBlockStart(src, p)
                /\ PositionAt(src, p).line = extracted[j].line
                /\ PositionAt(src, p).column = extracted[j].column
                /\ extracted[j].line
                     = Cardinality({q \in 1..(p - 1) : src[q] = NL})
                /\ (extracted[j].line = 0 =>
                        extracted[j].column = CharLen(Slice(src, 1, p - 1)))

\* C14 witness: a block recorded below the first line at a column other
\* than 0.
C14_Witness ==
    /\ pc = "extracted"
    /\ \E j \in DOMAIN extracted :
           extracted[j].line > 0 /\ extracted[j].column > 0

\* --------------------------------------------------- _dedent, the function

\* line.strip() != ""
IsBlankLine(line) == \A i \in DOMAIN line : line[i] \in WSpace

\* A removal of as many characters as the prefix has, whatever they are.
remove_leading(line, prefix) == Slice(line, Len(prefix) + 1, Len(line))

\* line.removeprefix(prefix)
removeprefix(line, prefix) ==
    IF Len(line) >= Len(prefix) /\ Slice(line, 1, Len(prefix)) = prefix
    THEN Slice(line, Len(prefix) + 1, Len(line))
    ELSE line

\* The first line that is not blank, "" if there is none.
FirstNonBlank(lines) ==
    LET N == {a \in DOMAIN lines : ~IsBlankLine(lines[a])}
    IN  IF N = {} THEN <<>> ELSE lines[MinOf(N)]

\* _dedent(text)
dedent(text) ==
    LET lines == SplitLines(text)
        first_line == FirstNonBlank(lines)
        first_indent == Slice(first_line, 1, Run(first_line, 1, HSpace))
    IN  IF first_indent = <<>> THEN text
        ELSE JoinLines([a \in DOMAIN lines |->
                           removeprefix(lines[a], first_indent)])

\* ------------------------------------------------------- snippet inputs

\* Number of code blocks of a source file.
MaxBlocks == 3

\* Opening fences of the blocks of a source file: languages with the same
\* and with different aliases and one outside the alias table, with and
\* without merge-before, and one block that is not extracted.
BlockOpenings ==
    { <<TICKS, "py", SP, "export">>,
      <<TICKS, "python", SP, "export", SP, "merge-before">>,
      <<TICKS, "js", SP, "export", SP, "merge-before">>,
      <<TICKS, "ts", SP, "ignore">>,
      <<TICKS, "py", SP, "merge-before">>,
      <<TICKS, "ruby", SP, "export", SP, "merge-before">> }

\* The text of a file made of the blocks opened by the fences os, each
\* with one indented line of code.
BlocksText(os) ==
    JoinLines(Flatten([k \in DOMAIN os |-> <<os[k], <<SP, "A">>, <<TICKS>>>>]))

SnippetTexts ==
    {BlocksText(os) : os \in UNION {[1..n -> BlockOpenings] : n \in 0..MaxBlocks}}

\* The path of the source file relative to the source directory.
SourcePath == << <<"oss">>, <<"guide.mdx">> >>

\* constants.LANGUAGE_COMMENT_SYNTAX
LANGUAGE_COMMENT_SYNTAX ==
    (<<"python">> :> "# ") @@ (<<"typescript">> :> "// ")

\* self.language_file_assoc.get(language, ".txt")
language_file_assoc(language) ==
    IF language = <<"python">> THEN ".py"
    ELSE IF language = <<"typescript">> THEN ".ts"
    ELSE ".txt"

\* str.strip("\n")
RECURSIVE StripNewlines(_)
StripNewlines(t) ==
    IF t # <<>> /\ t[1] = NL THEN StripNewlines(Tail(t))
    ELSE IF t # <<>> /\ t[Len(t)] = NL
         THEN StripNewlines(Slice(t, 1, Len(t) - 1))
    ELSE t

\* The lines of the blocks of a snippet: the position comment, then the
\* dedented content.
BlockLines(prefix, code_blocks) ==
    Flatten([k \in DOMAIN code_blocks |->
        << <<prefix, "Line: ", ToString(code_blocks[k].line),
             ", Column: ", ToString(code_blocks[k].column)>>,
           dedent(code_blocks[k].content) >>])

\* _stringify_code_snippet(code_snippet, file_path): the text, or the
\* KeyError of the lookup of the comment prefix.
stringify_code_snippet(code_snippet, file_path) ==
    IF code_snippet.language \notin DOMAIN LANGUAGE_COMMENT_SYNTAX
    THEN [err |-> "KeyError", content |-> NoValue]
    ELSE LET comment_prefix == LANGUAGE_COMMENT_SYNTAX[code_snippet.language]
         IN  [err |-> "none",
              content |-> StripNewlines(JoinLines(
                  << <<comment_prefix, "File: ">> \o JoinPath(file_path) >>
                    \o BlockLines(comment_prefix, code_snippet.code_blocks)))]

\* Path.mkdir(parents=True, exist_ok=True): the directories that exist
\* afterwards.
mkdir(ds, path) == ds \cup {Slice(path, 1, n) : n \in 1..Len(path)}

\* Path.write_text(content): the files that exist afterwards.
write_text(fs, path, content) ==
    {f \in fs : f.path # path} \cup {[path |-> path, content |-> content]}

\* The name of the file of the snippet idx (zero-based) of a language.
snippet_name(language, idx) ==
    language \o <<"_", ToString(idx), language_file_assoc(language)>>

\* The loop of _export_file from the snippet idx + 1 on, in the state st
\* of the output tree; an exception ends it.
RECURSIVE ExportFrom(_, _, _)
ExportFrom(code_snippets, idx, st) ==
    IF idx >= Len(code_snippets) THEN st
    ELSE LET code_snippet == code_snippets[idx + 1]
             language_path == <<code_snippet.language>>
             output_path == language_path \o SourcePath
         IN  IF language_path \notin st.dirs
             THEN ExportFrom(code_snippets, idx + 1, st)
             ELSE LET r == stringify_code_snippet(code_snippet, SourcePath)
                      snippet_path ==
                          Append(output_path,
                                 snippet_name(code_snippet.language, idx))
                  IN  IF r.err # "none"
                      THEN [st EXCEPT !.dirs = mkdir(@, output_path),
                                      !.err = r.err]
                      ELSE ExportFrom(code_snippets, idx + 1,
                               [st EXCEPT
                                  !.dirs = mkdir(@, output_path),
                                  !.files = write_text(@, snippet_path,
                                                       r.content)])

\* _export_file(file_path, output_dir, pbar) on the file of text src.
ExportFile ==
    /\ pc = "start"
    /\ \E r \in {extract_code_snippets(src)} :
         \E st \in {ExportFrom(r.snippets, 0,
                               [dirs |-> dirs, files |-> files,
                                err |-> "none"])} :
           /\ extracted' = r.code_blocks
           /\ snippets' = r.snippets
           /\ dirs' = st.dirs
           /\ files' = st.files
           /\ exportErr' = st.err
    /\ pc' = "exported"
    /\ UNCHANGED <<src, lang, env, constantsMap, resolved, unescaped, ret, err,
                   warnings, call, linked, passes, orig>>
    /\ UNCHANGED <<linkVars, tarVars, moreVars>>

\* The per-language directories of the output root.
LanguageDirs == { <<<<"python">>>>, <<<<"typescript">>>>, <<<<"ruby">>>> }

\* A source file of at most MaxBlocks blocks and an output root in which
\* any of the language directories exist.
InitSnippets ==
    /\ src \in SnippetTexts
    /\ lang = None
    /\ env = "python"
    /\ constantsMap = EmptyMap
    /\ InitCallLocals
    /\ InitNoLinks
    /\ InitNoTar
    /\ InitNoMore
    /\ snippets = NoValue
    /\ dirs \in SUBSET LanguageDirs
    /\ files = {}
    /\ exportErr = "none"

NextSnippets == ExtractCodeSnippets \/ ExportFile

SpecSnippets == InitSnippets /\ [][NextSnippets]_vars

\* ------------------------------------------------------------------ C15

\* The blocks of the snippets one after the other.
RECURSIVE AllBlocks(_)
AllBlocks(sn) ==
    IF sn = <<>> THEN <<>> ELSE Head(sn).code_blocks \o AllBlocks(Tail(sn))

\* The number of blocks of the first i snippets.
RECURSIVE BlocksUpTo(_, _)
BlocksUpTo(sn, i) ==
    IF i = 0 THEN 0 ELSE BlocksUpTo(sn, i - 1) + Len(sn[i].code_blocks)

\* The snippet that holds the j-th block.
SnippetOf(sn, j) ==
    MinOf({i \in DOMAIN sn : j <= BlocksUpTo(sn, i)})

DeclaresMerge(block) == Contains(block.attributes, "merge-before")

\* The blocks j..k are of one language and all but the first declare
\* merge-before.
IsMergeRun(bs, j, k) ==
    /\ \A a \in j..k : bs[a].language = bs[j].language
    /\ \A a \in (j + 1)..k : DeclaresMerge(bs[a])

\* C15: the snippets are the extracted blocks folded left to right: the
\* first block starts a snippet, a later block joins the snippet of the
\* block before it iff that snippet's language is the block's and the
\* block declares merge-before, and starts a new one otherwise; so the
\* blocks of a run of one language in which all but the first declare
\* merge-before lie in one snippet, one after the other.
C15_FoldLeftToRight ==
    pc = "extracted" =>
        /\ AllBlocks(snippets) = extracted
        /\ \A i \in DOMAIN snippets : snippets[i].code_blocks # <<>>
        /\ \A j \in 2..Len(extracted) :
             LET prev == SnippetOf(snippets, j - 1)
             IN  (SnippetOf(snippets, j) = prev)
                   <=> /\ snippets[prev].language = extracted[j].language
                       /\ DeclaresMerge(extracted[j])
        /\ \A j \in DOMAIN extracted : \A k \in DOMAIN extracted :
             (j <= k /\ IsMergeRun(extracted, j, k)) =>
                 SnippetOf(snippets, j) = SnippetOf(snippets, k)
        /\ (extracted # <<>> /\ IsMergeRun(extracted, 1, Len(extracted))) =>
             snippets = <<[language |-> extracted[1].language,
                           code_blocks |-> extracted]>>

\* C15 witness: three extracted blocks of one language, the second and
\* the third declaring merge-before, give one snippet.
C15_Witness ==
    /\ pc = "extracted"
    /\ Len(extracted) = MaxBlocks
    /\ IsMergeRun(extracted, 1, Len(extracted))
    /\ extracted[1].attributes # extracted[2].attributes
    /\ Len(snippets) = 1

\* ------------------------------------------------------------------ C16

\* C16: every snippet is non-empty, its blocks have its language, every
\* block after its first declares merge-before, the snippets' blocks one
\* after the other are the extracted blocks, and the first block of every
\* snippet after the first has another language than the snippet before
\* it or does not declare merge-before.
C16_SnippetsPartitionBlocks ==
    pc = "extracted" =>
        /\ \A i \in DOMAIN snippets :
             LET bs == snippets[i].code_blocks
             IN  /\ bs # <<>>
                 /\ \A a \in DOMAIN bs : bs[a].language = snippets[i].language
                 /\ \A a \in 2..Len(bs) : DeclaresMerge(bs[a])
        /\ AllBlocks(snippets) = extracted
        /\ \A i \in 2..Len(snippets) :
             LET first == snippets[i].code_blocks[1]
             IN  \/ first.language # snippets[i - 1].language
                 \/ ~DeclaresMerge(first)

\* C16 witness: three blocks in two snippets, the second snippet started
\* by a block that declares merge-before in another language.
C16_Witness ==
    /\ pc = "extracted"
    /\ Len(extracted) = MaxBlocks
    /\ Len(snippets) = 2
    /\ Len(snippets[1].code_blocks) = 2
    /\ DeclaresMerge(snippets[2].code_blocks[1])

\* --------------------------------------------------------------- _dedent

\* Number of lines of a text given to _dedent.
MaxDedentLines == 3

\* A call of _dedent(src).
Dedent ==
    /\ pc = "start"
    /\ ret' = dedent(src)
    /\ pc' = "dedented"
    /\ UNCHANGED <<src, lang, env, constantsMap, resolved, unescaped, err,
                   warnings, call, linked, passes, orig, extracted>>
    /\ UNCHANGED otherVars

\* Lines of a block of code: no indentation, one space, two spaces, a
\* tab, a space and a tab, spaces only, nothing.
DedentLineKinds ==
    { <<"A">>, <<SP, "A">>, <<SP, SP, "A">>, <<TAB, "A">>, <<SP, TAB, "A">>,
      <<SP, SP>>, <<>> }

InitDedent ==
    /\ src \in TextsOf(DedentLineKinds, MaxDedentLines)
    /\ lang = None
    /\ env = "python"
    /\ constantsMap = EmptyMap
    /\ InitLocals

NextDedent == Dedent

SpecDedent == InitDedent /\ [][NextDedent]_vars

\* ------------------------------------------------------------------ C19

\* The leading run of spaces and tabs of the first non-blank line of the
\* lines ls, empty if every line is blank.
SharedPrefix(ls) ==
    LET N == {a \in DOMAIN ls : \E i \in DOMAIN ls[a] : ls[a][i] \notin {SP, TAB, NL}}
    IN  IF N = {} THEN <<>>
        ELSE LET l == ls[MinOf(N)]
                 n == MinOf({i \in DOMAIN l : l[i] \notin {SP, TAB}})
             IN  Slice(l, 1, n - 1)

\* The line starts with the prefix.
StartsWith(l, prefix) ==
    /\ Len(l) >= Len(prefix)
    /\ \A i \in DOMAIN prefix : l[i] = prefix[i]

\* C19: _dedent returns as many lines as it is given; each is the line
\* without the leading whitespace of the first non-blank line when it
\* starts with it, and the line itself otherwise; a text whose first
\* non-blank line is not indented is returned as it is.
C19_DedentSharedPrefix ==
    pc = "dedented" =>
        LET ls == SplitLines(src)
            rs == SplitLines(ret)
            prefix == SharedPrefix(ls)
        IN  /\ Len(rs) = Len(ls)
            /\ \A a \in DOMAIN ls :
                 IF StartsWith(ls[a], prefix)
                 THEN prefix \o rs[a] = ls[a]
                 ELSE rs[a] = ls[a]
            /\ prefix = <<>> => ret = src

\* C19 witness: of three lines the first is blank, the second gives a
\* prefix and loses it, and the third starts otherwise and is kept.
C19_Witness ==
    /\ pc = "dedented"
    /\ LET ls == SplitLines(src)
           rs == SplitLines(ret)
       IN  /\ Len(ls) = 3
           /\ IsBlankLine(ls[1])
           /\ SharedPrefix(ls) # <<>>
           /\ rs[2] # ls[2]
           /\ ~IsBlankLine(ls[3])
           /\ ls[3][1] \in {SP, TAB}
           /\ rs[3] = ls[3]

\* ------------------------------------------------------------------ C17

\* The extension the claim gives a language.
ClaimedExt(language) ==
    CASE language = <<"python">> -> ".py"
      [] language = <<"typescript">> -> ".ts"
      [] OTHER -> ".txt"

\* The file the claim names for the idx-th snippet (zero-based).
ClaimedPath(language, idx) ==
    <<language>> \o SourcePath
        \o <<language \o <<"_", ToString(idx), ClaimedExt(language)>>>>

\* C17: _export_file ends without an error and has written, for every
\* snippet whose language directory exists, the file
\* {language}/{relative source path}/{language}_{n}{ext}, with ext .py
\* for python, .ts for typescript and .txt for any other language.
C17_EverySnippetExported ==
    pc = "exported" =>
        /\ exportErr = "none"
        /\ \A n \in DOMAIN snippets :
             <<snippets[n].language>> \in dirs =>
                 \E f \in files :
                     f.path = ClaimedPath(snippets[n].language, n - 1)

\* ------------------------------------------------------------------ C18

\* The path lies in the directory of the language.
UnderLanguage(path, language) == path # <<>> /\ path[1] = language

\* C18: for a snippet whose language directory does not exist no
\* directory is created and no file written under that directory, and
\* every other snippet of the file is exported.
C18_MissingLanguageSkipped ==
    pc = "exported" =>
        \A n \in DOMAIN snippets :
            <<snippets[n].language>> \notin dirs =>
                /\ \A d \in dirs : ~UnderLanguage(d, snippets[n].language)
                /\ \A f \in files :
                     ~UnderLanguage(f.path, snippets[n].language)
                /\ \A k \in DOMAIN snippets :
                     <<snippets[k].language>> \in dirs =>
                         \E f \in files :
                             f.path = ClaimedPath(snippets[k].language, k - 1)

\* ------------------------------------------------------ _extract_html_dir

\* Number of members of an archive.
MaxMembers == 2

\* Path(...): the parts of a "/"-separated string given as its segments,
\* empty segments and "." dropped, ".." kept.
PathParts(segs) == SelectSeq(segs, LAMBDA x : x \notin {"", "."})

\* The string starts with "/".
IsAbsoluteName(segs) == Len(segs) > 1 /\ segs[1] = ""

\* base / name: an absolute name replaces the base. A path is the
\* sequence of its parts below the root of the file system.
JoinName(base, segs) ==
    IF IsAbsoluteName(segs) THEN PathParts(segs) ELSE base \o PathParts(segs)

\* member_path.is_relative_to(path): a comparison of the parts.
is_relative_to(member_path, path) ==
    /\ Len(member_path) >= Len(path)
    /\ Slice(member_path, 1, Len(path)) = path

\* member.name.split("api_reference_build/html/", 1): the position of the
\* first segment of the separator, 0 if the name does not hold it.
SplitAt(segs) ==
    LET K == {k \in 1..(Len(segs) - 2) :
                 segs[k] = "api_reference_build" /\ segs[k + 1] = "html"}
    IN  IF K = {} THEN 0 ELSE MinOf(K)

\* The directory the file system reaches by following parts from cur
\* through existing directories; the error is "ENOENT" if one is missing
\* and "ENOTDIR" if one is a file.
RECURSIVE Walk(_, _, _)
Walk(t, cur, parts) ==
    IF parts = <<>> THEN [err |-> "none", at |-> cur]
    ELSE IF Head(parts) = ".."
         THEN Walk(t, Slice(cur, 1, Len(cur) - 1), Tail(parts))
    ELSE LET nxt == Append(cur, Head(parts))
         IN  IF nxt \in t.dirs THEN Walk(t, nxt, Tail(parts))
             ELSE IF nxt \in t.files THEN [err |-> "ENOTDIR", at |-> nxt]
             ELSE [err |-> "ENOENT", at |-> nxt]

\* os.mkdir(parts): the tree afterwards and the error.
os_mkdir(t, parts) ==
    IF parts = <<>> THEN [tree |-> t, err |-> "EEXIST"]
    ELSE LET base == Walk(t, <<>>, Slice(parts, 1, Len(parts) - 1))
             last == parts[Len(parts)]
         IN  IF base.err # "none" THEN [tree |-> t, err |-> base.err]
             ELSE IF last = ".." THEN [tree |-> t, err |-> "EEXIST"]
             ELSE IF Append(base.at, last) \in t.dirs \cup t.files
                  THEN [tree |-> t, err |-> "EEXIST"]
             ELSE [tree |-> [t EXCEPT !.dirs = @ \cup {Append(base.at, last)}],
                   err |-> "none"]

\* Path.is_dir()
is_dir(t, parts) == Walk(t, <<>>, parts).err = "none"

\* Path.mkdir(parents=True, exist_ok=True)
RECURSIVE mkdir_parents(_, _)
mkdir_parents(t, parts) ==
    LET r == os_mkdir(t, parts)
    IN  IF r.err = "none" THEN r
        ELSE IF r.err = "ENOENT"
             THEN IF parts = <<>> THEN [tree |-> t, err |-> "FileNotFoundError"]
                  ELSE LET up == mkdir_parents(t, Slice(parts, 1,
                                                        Len(parts) - 1))
                       IN  IF up.err # "none" THEN up
                           ELSE LET again == os_mkdir(up.tree, parts)
                                IN  IF again.err = "none" THEN again
                                    ELSE IF again.err = "ENOENT"
                                         THEN [tree |-> up.tree,
                                               err |-> "FileNotFoundError"]
                                    ELSE IF is_dir(up.tree, parts)
                                         THEN [tree |-> up.tree, err |-> "none"]
                                    ELSE [tree |-> up.tree, err |-> "OSError"]
        ELSE IF is_dir(t, parts) THEN [tree |-> t, err |-> "none"]
        ELSE [tree |-> t, err |-> "OSError"]

\* dest_path.open("wb") and the copy of the member into it.
write_file(t, parts) ==
    LET base == Walk(t, <<>>, Slice(parts, 1, Len(parts) - 1))
        last == parts[Len(parts)]
    IN  IF base.err # "none" THEN [tree |-> t, err |-> "OSError"]
        ELSE IF last = ".." \/ Append(base.at, last) \in t.dirs
             THEN [tree |-> t, err |-> "OSError"]
        ELSE [tree |-> [t EXCEPT !.files = @ \cup {Append(base.at, last)}],
              err |-> "none"]

\* The body of the loop of _extract_html_dir for one member.
extract_member(t, member, path) ==
    LET member_path == JoinName(path, member.name)
        k == SplitAt(member.name)
        relative_path == Slice(member.name, k + 2, Len(member.name))
        dest_path == JoinName(path, relative_path)
    IN  IF ~is_relative_to(member_path, path)
        THEN [tree |-> t, err |-> "TarPathTraversalError"]
        ELSE IF k = 0 \/ relative_path = <<"">> THEN [tree |-> t, err |-> "none"]
        ELSE LET made == mkdir_parents(t, Slice(dest_path, 1,
                                                Len(dest_path) - 1))
             IN  IF made.err # "none" \/ ~member.isfile THEN made
                 ELSE write_file(made.tree, dest_path)

\* _extract_html_dir(tar, path): the loop, ended by the first exception.
RECURSIVE extract_html_dir(_, _, _)
extract_html_dir(t, ms, path) ==
    IF ms = <<>> THEN [tree |-> t, err |-> "none"]
    ELSE LET r == extract_member(t, Head(ms), path)
         IN  IF r.err # "none" THEN r
             ELSE extract_html_dir(r.tree, Tail(ms), path)

\* The destination root: DIST_DIR, or a directory of a version below it.
DestRoot == <<"dist", "python">>

\* A call of _extract_html_dir(tar, DestRoot).
ExtractHtmlDir ==
    /\ pc = "start"
    /\ \E r \in {extract_html_dir(tree, members, DestRoot)} :
           /\ tree' = r.tree
           /\ tarErr' = r.err
    /\ pc' = "untarred"
    /\ UNCHANGED <<callData, linkVars, snipVars, members, moreVars>>

\* Names of members: a page, the html directory itself, a page in a
\* subdirectory of a nested build, a name that climbs out of the html
\* directory, an absolute name, a name with an absolute path after the
\* html directory, a file outside the html directory, a name that starts
\* with "..".
MemberNames ==
    { <<"api_reference_build", "html", "index.html">>,
      <<"api_reference_build", "html", "">>,
      <<"pkg", "api_reference_build", "html", "sub", "a.html">>,
      <<"api_reference_build", "html", "..", "..", "evil">>,
      <<"", "etc", "api_reference_build", "html", "a.html">>,
      <<"api_reference_build", "html", "", "etc", "evil">>,
      <<"README">>,
      <<"..", "up", "api_reference_build", "html", "a.html">> }

\* The file system before the extraction: the destination root exists.
RootTree ==
    [dirs |-> {Slice(DestRoot, 1, n) : n \in 0..Len(DestRoot)}, files |-> {}]

InitTar ==
    /\ members \in UNION {[1..n -> [name : MemberNames, isfile : BOOLEAN]] :
                             n \in 0..MaxMembers}
    /\ tree = RootTree
    /\ tarErr = "none"
    /\ InitNoLinks
    /\ InitNoExport
    /\ InitNoMore
    /\ InitIdleCall

NextTar == ExtractHtmlDir

SpecTar == InitTar /\ [][NextTar]_vars

\* ------------------------------------------------------------------ C20

\* The place lies in the destination root.
InDestRoot(place) ==
    Len(place) >= Len(DestRoot) /\ Slice(place, 1, Len(DestRoot)) = DestRoot

\* C20: whatever the members of the archive, every directory and file
\* that _extract_html_dir creates lies in the destination root.
C20_NothingOutsideRoot ==
    pc = "untarred" =>
        \A place \in (tree.dirs \cup tree.files) \ RootTree.dirs :
            InDestRoot(place)

\* ------------------------------------------------------------------ C21

\* The member fails the traversal check of _extract_html_dir.
FailsTraversalCheck(member) ==
    ~is_relative_to(JoinName(DestRoot, member.name), DestRoot)

\* C21: when a member of the archive fails the traversal check, wherever
\* it stands in the archive, the call raises TarPathTraversalError and
\* has created no directory and written no file.
C21_RaisedBeforeAnyWrite ==
    (pc = "untarred" /\ \E k \in DOMAIN members : FailsTraversalCheck(members[k]))
        => /\ tarErr = "TarPathTraversalError"
           /\ tree = RootTree

\* ------------------------------------------------ runs over the source files
\* DocumentationBuilder.build_all and build_file (core/builder.py) and
\* DocumentationSnippetsParser.export_all (core/snippets.py).  A path is the
\* sequence of its parts, a source path is relative to src_dir and an output
\* path is relative to build_dir.  A markdown file is readable (fault "none")
\* or its read raises OSError or UnicodeDecodeError.

MaxRunFiles == 3

\* The files the source directory may hold.
SourcePaths ==
    { <<"oss", "python", "a.mdx">>, <<"oss", "javascript", "a.mdx">>,
      <<"oss", "b.md">>, <<"langsmith", "a.mdx">>,
      <<"oss", "images", "d.png">>, <<"index.mdx">>,
      <<"oss", "TEMPLATE.mdx">> }

\* Path.suffix.lower() of the names of the source files.
Suffix(name) ==
    CASE name = "a.mdx" -> ".mdx"
      [] name = "index.mdx" -> ".mdx"
      [] name = "TEMPLATE.mdx" -> ".mdx"
      [] name = "b.md" -> ".md"
      [] name = "b.mdx" -> ".mdx"
      [] name = "d.png" -> ".png"
      [] OTHER -> ""

\* Path.with_suffix(".mdx") on a name.
with_suffix_mdx(name) == IF name = "b.md" THEN "b.mdx" ELSE name

FileName(path) == path[Len(path)]

IsMarkdown(path) == Suffix(FileName(path)) \in {".md", ".mdx"}

\* DocumentationBuilder.copy_extensions
copy_extensions ==
    {".mdx", ".md", ".json", ".svg", ".png", ".jpg", ".jpeg", ".gif", ".yml",
     ".yaml", ".css", ".js"}

\* DocumentationBuilder.is_shared_file on the path relative to src_dir.
is_shared_file(path) ==
    \/ FileName(path) = "docs.json"
    \/ FileName(path) = "index.mdx" /\ Len(path) = 1
    \/ FileName(path) = "use-these-docs.mdx" /\ Len(path) = 1
    \/ \E i \in DOMAIN path : path[i] = "images"
    \/ \E i \in DOMAIN path : path[i] = "snippets"
    \/ Suffix(FileName(path)) \in {".js", ".css"}

\* DocumentationBuilder.language_url_names
language_url_names(target) == IF target = "js" THEN "javascript" ELSE target

\* One call of _build_single_file or _build_single_file_to_path: what is to be
\* done with the file f for the output path `to`.
BuildJob(f, to, target) ==
    [from |-> f.path, to |-> to, target |-> target, fault |-> f.fault,
     kind |-> IF FileName(f.path) = "TEMPLATE.mdx" THEN "skip"
              ELSE IF Suffix(FileName(f.path)) \notin copy_extensions THEN "skip"
              ELSE IF IsMarkdown(f.path) THEN "markdown"
              ELSE "copy"]

\* The body of the loop of _build_langgraph_version for one file: no job for
\* a file that is not under oss/, that is shared, or that is under the
\* directory of the other language.
version_job(f, target) ==
    IF f.path[1] # "oss" \/ is_shared_file(f.path) THEN <<>>
    ELSE LET relative_path == Tail(f.path)
             first_part == relative_path[1]
             expected_dir == IF target = "python" THEN "python" ELSE "javascript"
         IN  IF first_part \in {"python", "javascript"}
             THEN IF first_part # expected_dir THEN <<>>
                  ELSE << BuildJob(f, <<"oss", expected_dir>> \o Tail(relative_path),
                                   target) >>
             ELSE << BuildJob(f, <<"oss", language_url_names(target)>> \o relative_path,
                              target) >>

\* The body of the loop of _build_unversioned_content("langsmith", "langsmith").
unversioned_job(f) ==
    IF f.path[1] # "langsmith" \/ is_shared_file(f.path) THEN <<>>
    ELSE << BuildJob(f, f.path, "python") >>

\* The body of the loop of _copy_shared_files.
shared_job(f) ==
    IF ~is_shared_file(f.path) THEN <<>>
    ELSE IF Suffix(FileName(f.path)) \notin copy_extensions THEN <<>>
    ELSE << BuildJob(f, f.path, None) >>

RECURSIVE JobsOfStage(_, _)
JobsOfStage(fs, stage) ==
    IF fs = <<>> THEN <<>>
    ELSE (CASE stage = "python" -> version_job(Head(fs), "python")
            [] stage = "js" -> version_job(Head(fs), "js")
            [] stage = "langsmith" -> unversioned_job(Head(fs))
            [] OTHER -> shared_job(Head(fs)))
         \o JobsOfStage(Tail(fs), stage)

\* build_all: the iterations of its four loops, in the order they are run.
build_all(fs) ==
    JobsOfStage(fs, "python") \o JobsOfStage(fs, "js")
        \o JobsOfStage(fs, "langsmith") \o JobsOfStage(fs, "shared")

\* The output directory export_all hands to _export_file.
SnippetsDir == <<"snippets">>

RECURSIVE export_all(_)
\* export_all: the iterations of its loop, over the .md and .mdx files under
\* the directories of directory_whitelist.
export_all(fs) ==
    IF fs = <<>> THEN <<>>
    ELSE (IF Head(fs).path[1] = "oss" /\ IsMarkdown(Head(fs).path)
          THEN << [from |-> Head(fs).path, to |-> SnippetsDir, target |-> "export",
                   fault |-> Head(fs).fault, kind |-> "export"] >>
          ELSE <<>>)
         \o export_all(Tail(fs))

\* build_file: the calls of _build_single_file_to_path for one file.
build_file(f) ==
    IF f.path[1] = "oss"
    THEN IF is_shared_file(f.path) THEN << BuildJob(f, f.path, None) >>
         ELSE << BuildJob(f, <<"oss", "python">> \o Tail(f.path), "python"),
                 BuildJob(f, <<"oss", "javascript">> \o Tail(f.path), "js") >>
    ELSE IF f.path[1] = "langsmith" THEN << BuildJob(f, f.path, "python") >>
    ELSE << BuildJob(f, f.path, None) >>

\* The iterations of the run.
Jobs ==
    CASE runOp = "build_all" -> build_all(srcFiles)
      [] runOp = "export_all" -> export_all(srcFiles)
      [] runOp = "build_file" -> build_file(srcFiles[runArg])
      [] OTHER -> <<>>

\* What a completed job leaves behind: _process_markdown_file writes a .md
\* source to the .mdx path.
Written(job) ==
    [from |-> job.from, target |-> job.target,
     to |-> IF job.kind = "markdown"
            THEN SubSeq(job.to, 1, Len(job.to) - 1)
                     \o <<with_suffix_mdx(FileName(job.to))>>
            ELSE job.to]

\* One iteration of a loop of the run.  _process_markdown_file logs the
\* exception of a failing file and raises it again; _export_file lets the
\* exception of read_text through; no loop of the run catches it.
RunStep ==
    /\ pc \in {"start", "running"}
    /\ runOp \in {"build_all", "export_all", "build_file"}
    /\ IF runPos >= Len(Jobs)
       THEN /\ pc' = "finished"
            /\ UNCHANGED <<runPos, runDone, runLog, runErr>>
       ELSE \E job \in {Jobs[runPos + 1]} :
            IF job.kind = "skip"
            THEN /\ pc' = "running"
                 /\ runPos' = runPos + 1
                 /\ UNCHANGED <<runDone, runLog, runErr>>
            ELSE IF job.kind = "copy" \/ job.fault = "none"
            THEN /\ pc' = "running"
                 /\ runPos' = runPos + 1
                 /\ runDone' = runDone \cup {Written(job)}
                 /\ UNCHANGED <<runLog, runErr>>
            ELSE /\ pc' = "raised"
                 /\ runErr' = job.fault
                 /\ runLog' = IF job.kind = "markdown"
                              THEN Append(runLog, job.from) ELSE runLog
                 /\ UNCHANGED <<runPos, runDone>>
    /\ UNCHANGED <<callData, linkVars, snipVars, tarVars, invVars, cmdVars, expVars, fetchVars, supportVars, parVars>>
    /\ UNCHANGED <<srcFiles, runOp, runArg>>

Faults == {"none", "OSError", "UnicodeDecodeError"}

\* The lists of at most n distinct source files, in any order.
RECURSIVE FileLists(_)
FileLists(n) ==
    IF n = 0 THEN {<<>>}
    ELSE LET shorter == FileLists(n - 1)
         IN  shorter \cup
             { Append(fs, [path |-> p, fault |-> ft]) :
                 fs \in {x \in shorter : Len(x) = n - 1},
                 p \in SourcePaths, ft \in Faults }

DistinctPaths(fs) ==
    \A i, j \in DOMAIN fs : i # j => fs[i].path # fs[j].path

InitBuild ==
    /\ InitNoLinks
    /\ InitNoExport
    /\ InitNoTar
    /\ InitNoInventory
    /\ InitNoCommand
    /\ InitNoExportAll
    /\ InitNoFetch
    /\ InitNoSupport
    /\ InitNoParallel
    /\ InitIdleCall
    /\ srcFiles \in { fs \in FileLists(MaxRunFiles) :
                        /\ DistinctPaths(fs)
                        /\ \A i \in DOMAIN fs :
                              ~IsMarkdown(fs[i].path) => fs[i].fault = "none" }
    /\ runOp \in {"build_all", "export_all", "build_file"}
    /\ runArg \in IF runOp = "build_file" THEN DOMAIN srcFiles ELSE {0}
    /\ runPos = 0
    /\ runDone = {}
    /\ runLog = <<>>
    /\ runErr = "none"

NextBuild == RunStep

SpecBuild == InitBuild /\ [][NextBuild]_vars

\* The files of the run that can be read and are to be written.
Sound(job) == job.kind = "copy" \/ (job.kind \in {"markdown", "export"} /\ job.fault = "none")

Failing(job) == job.kind \in {"markdown", "export"} /\ job.fault # "none"

\* C22: when a file fails during build_all or export_all, the error is
\* logged and the remaining files of the run are still processed: at the end
\* of the run every failing file is in the log and every other file of the
\* run has been processed.
C22_FailureFatalForFileOnly ==
    (runOp \in {"build_all", "export_all"} /\ pc \in {"finished", "raised"})
        => \A i \in DOMAIN Jobs :
              /\ Sound(Jobs[i]) => Written(Jobs[i]) \in runDone
              /\ Failing(Jobs[i]) => \E k \in DOMAIN runLog : runLog[k] = Jobs[i].from

\* The source files the finished run was to build: all of them for
\* build_all, the argument for build_file.
FilesOfRun ==
    IF runOp = "build_file" THEN {srcFiles[runArg]}
    ELSE {srcFiles[i] : i \in DOMAIN srcFiles}

\* A markdown file oss/python/<p> or oss/javascript/<p>.
IsQualified(path) ==
    /\ Len(path) >= 3
    /\ path[1] = "oss"
    /\ path[2] \in {"python", "javascript"}
    /\ IsMarkdown(path)

\* The output paths the run wrote the source file `path` to.
OutputsOf(path) == {w.to : w \in {x \in runDone : x.from = path}}

\* C28: a markdown file oss/python/<p> is written to <build>/oss/python/<p>
\* and to no path under <build>/oss/javascript/, and symmetrically for
\* oss/javascript/<p>, both by build_all and by build_file.
C28_QualifiedBuiltForOwnLanguage ==
    (runOp \in {"build_all", "build_file"} /\ pc = "finished")
        => \A f \in FilesOfRun :
              IsQualified(f.path) => OutputsOf(f.path) = {f.path}

\* ------------------------------------------------- generation of link maps
\* scripts/generate_link_maps.py.  The response of an inventory URL is what
\* urlopen and the parse make of it: urlopen raises URLError, the data has
\* less than five header lines (ValueError), the payload does not inflate
\* (zlib.error), or the payload is a list of inventory lines.  A dotted name
\* is the sequence of its components.

MaxConfigs == 3

\* The lines an inventory may hold: the name, the domain:role field, the
\* location (a page, and whether it ends with "$") and the number of fields.
InventoryLines ==
    [cls |-> [name |-> <<"pkg", "Cls">>, domain_role |-> <<"py", "class">>,
              page |-> "api/pkg.html#", dollar |-> TRUE, parts |-> 5],
     mod |-> [name |-> <<"pkg">>, domain_role |-> <<"py", "module">>,
              page |-> "api/pkg.html", dollar |-> FALSE, parts |-> 5],
     lbl |-> [name |-> <<"genindex">>, domain_role |-> <<"std", "label">>,
              page |-> "genindex.html", dollar |-> FALSE, parts |-> 5],
     cut |-> [name |-> <<"pkg", "fn">>, domain_role |-> <<"py", "function">>,
              page |-> "api/pkg.html#", dollar |-> TRUE, parts |-> 4]]

Responses ==
    { [status |-> "URLError", lines |-> <<>>],
      [status |-> "ValueError", lines |-> <<>>],
      [status |-> "zlib.error", lines |-> <<>>],
      [status |-> "ok", lines |-> <<>>],
      [status |-> "ok", lines |-> <<InventoryLines.cls, InventoryLines.lbl>>],
      [status |-> "ok", lines |-> <<InventoryLines.mod, InventoryLines.cut,
                                    InventoryLines.cls>>] }

\* INVENTORY_CONFIGS: the two configured sources and the one of the comment.
INVENTORY_CONFIGS ==
    << [host |-> "https://reference.langchain.com/python/", scope |-> "python",
        include_roles |-> {"class", "function", "method", "module"},
        name_transform |-> "python_langchain_name_transform"],
       [host |-> "https://langchain-ai.github.io/langgraph/", scope |-> "python",
        include_roles |-> {"class", "function", "method"},
        name_transform |-> None],
       [host |-> "https://langchain-ai.github.io/langgraphjs/", scope |-> "js",
        include_roles |-> {}, name_transform |-> None],
       [host |-> "https://docs.smith.langchain.com/", scope |-> "python",
        include_roles |-> {}, name_transform |-> None] >>

\* SphinxInventory.fetch_and_parse: the objects of the lines with five
\* fields, a location that ends with "$" completed with the name.
RECURSIVE fetch_and_parse(_)
fetch_and_parse(lines) ==
    IF lines = <<>> THEN <<>>
    ELSE LET line == Head(lines)
         IN  (IF line.parts < 5 THEN <<>>
              ELSE << [name |-> line.name,
                       role |-> IF Len(line.domain_role) > 1
                                THEN line.domain_role[2] ELSE "",
                       location |-> [page |-> line.page,
                                     anchor |-> IF line.dollar THEN line.name
                                                ELSE <<>>]] >>)
             \o fetch_and_parse(Tail(lines))

\* python_langchain_name_transform: <<name>>, or <<>> for None.
python_langchain_name_transform(obj) ==
    IF obj.role \in {"class", "function", "method", "attribute"}
    THEN << <<obj.name[Len(obj.name)]>> >>
    ELSE IF obj.role = "module" THEN <<obj.name>>
    ELSE <<>>

\* The loop of generate_link_map_from_inventory over inv.objects.
RECURSIVE LinksOf(_, _, _)
LinksOf(objects, config, links) ==
    IF objects = <<>> THEN links
    ELSE LET obj == Head(objects)
             names == IF config.name_transform = None THEN <<obj.name>>
                      ELSE python_langchain_name_transform(obj)
         IN  IF config.include_roles # {} /\ obj.role \notin config.include_roles
             THEN LinksOf(Tail(objects), config, links)
             ELSE IF names = <<>> THEN LinksOf(Tail(objects), config, links)
             ELSE LinksOf(Tail(objects), config,
                          [k \in DOMAIN links \cup {names[1]} |->
                              IF k = names[1] THEN obj.location ELSE links[k]])

NoLinks == [k \in {} |-> <<>>]

\* generate_link_map_from_inventory(**config): the exception it raises, or
\* the link map it returns.
generate_link_map_from_inventory(config) ==
    IF config.response.status # "ok"
    THEN [raised |-> config.response.status,
          link_map |-> [host |-> config.host, scope |-> config.scope,
                        links |-> NoLinks]]
    ELSE [raised |-> "none",
          link_map |-> [host |-> config.host, scope |-> config.scope,
                        links |-> LinksOf(fetch_and_parse(config.response.lines),
                                          config, NoLinks)]]

\* `except OSError` in place of `except Exception`.
CaughtByExceptOSError(exc) == exc = "URLError"

\* `except Exception`: URLError, ValueError and zlib.error derive from it.
CaughtByExcept(exc) == exc \in {"URLError", "ValueError", "zlib.error"}

\* One iteration of the loop of main over INVENTORY_CONFIGS.
ProcessConfig ==
    /\ pc \in {"start", "running"}
    /\ invPos < Len(configs)
    /\ \E r \in {generate_link_map_from_inventory(configs[invPos + 1])} :
          IF r.raised = "none"
          THEN /\ linkMapList' = Append(linkMapList, r.link_map)
               /\ pc' = "running"
               /\ UNCHANGED <<invLog, invErr>>
          ELSE IF CaughtByExcept(r.raised)
          THEN /\ invLog' = Append(invLog, [url |-> configs[invPos + 1].host,
                                            error |-> r.raised])
               /\ pc' = "running"
               /\ UNCHANGED <<linkMapList, invErr>>
          ELSE /\ invErr' = r.raised
               /\ pc' = "raised"
               /\ UNCHANGED <<linkMapList, invLog>>
    /\ invPos' = invPos + 1
    /\ UNCHANGED <<callData, linkVars, snipVars, tarVars, buildVars, cmdVars, expVars, fetchVars, supportVars, parVars>>
    /\ UNCHANGED <<configs, invOut>>

\* The rest of main: AUTO_GENERATED_LINK_MAPS is printed with the maps of
\* linkMapList, in order.
EmitLinkMaps ==
    /\ pc \in {"start", "running"}
    /\ invPos = Len(configs)
    /\ invOut' = linkMapList
    /\ pc' = "emitted"
    /\ UNCHANGED <<callData, linkVars, snipVars, tarVars, buildVars, cmdVars, expVars, fetchVars, supportVars, parVars>>
    /\ UNCHANGED <<configs, invPos, linkMapList, invLog, invErr>>

InitInventory ==
    /\ InitNoLinks
    /\ InitNoExport
    /\ InitNoTar
    /\ InitNoBuild
    /\ InitNoCommand
    /\ InitNoExportAll
    /\ InitNoFetch
    /\ InitNoSupport
    /\ InitNoParallel
    /\ InitIdleCall
    /\ configs \in UNION
          { { [i \in 1..n |->
                 [host |-> INVENTORY_CONFIGS[i].host,
                  scope |-> INVENTORY_CONFIGS[i].scope,
                  include_roles |-> INVENTORY_CONFIGS[i].include_roles,
                  name_transform |-> INVENTORY_CONFIGS[i].name_transform,
                  response |-> rs[i]]] : rs \in [1..n -> Responses] }
            : n \in 0..MaxConfigs }
    /\ invPos = 0
    /\ linkMapList = <<>>
    /\ invLog = <<>>
    /\ invOut = <<>>
    /\ invErr = "none"

NextInventory == ProcessConfig \/ EmitLinkMaps

SpecInventory == InitInventory /\ [][NextInventory]_vars

\* The configs whose inventory is fetched and parsed, and the others.
Healthy == {i \in DOMAIN configs : configs[i].response.status = "ok"}

Broken == DOMAIN configs \ Healthy

\* The position in the output of the map of the healthy config i.
RankOf(i) == Cardinality({j \in Healthy : j <= i})

\* C23: a fetch or parse failure of one inventory source is caught and
\* logged, that source contributes no links, every other source, before or
\* after it, is still processed and emitted, and the run does not abort.
C23_FailingSourceSkipped ==
    /\ invErr = "none" /\ pc # "raised"
    /\ pc = "emitted" =>
          /\ Len(invOut) = Cardinality(Healthy)
          /\ \A i \in Healthy :
                /\ invOut[RankOf(i)].host = configs[i].host
                /\ invOut[RankOf(i)].scope = configs[i].scope
                /\ \A k \in DOMAIN invOut[RankOf(i)].links :
                      \E j \in DOMAIN configs[i].response.lines :
                         /\ configs[i].response.lines[j].parts = 5
                         /\ k[Len(k)] =
                              configs[i].response.lines[j].name[
                                  Len(configs[i].response.lines[j].name)]
          /\ \A i \in Broken :
                /\ \E k \in DOMAIN invLog : invLog[k].url = configs[i].host
                /\ \A k \in DOMAIN invOut : invOut[k].host # configs[i].host

\* A run with a source that fails between two sources that give links.
C23_Witness ==
    /\ pc = "emitted"
    /\ Len(configs) = 3
    /\ Broken = {2}
    /\ Len(invOut) = 2
    /\ DOMAIN invOut[1].links # {}
    /\ DOMAIN invOut[2].links # {}

\* ------------------------------------------------------ the snippets command
\* commands/snippets.py snippets_command and DocumentationSnippetsParser.
\* lint_all, _run_language_lint (core/snippets.py).  The output directory
\* holds language directories; a language directory has a Makefile or not,
\* and `make -C <dir> lint` exits with the code rc.  Every language directory
\* holds a file that clean_all keeps, so that export_all leaves it in place.

\* The exit codes of the lint subprocess.
LintCodes == {0, 1, 2}

\* DocumentationSnippetsParser.language_file_assoc, its keys.
LintLanguages == {"python", "typescript"}

\* _run_language_lint: 0 without a Makefile, 127 without make, or the
\* return code of the subprocess.
run_language_lint(dir, make) ==
    IF ~dir.makefile THEN 0
    ELSE IF ~make THEN 127
    ELSE dir.rc

\* The orders iterdir may list the language directories in.
Orders(S) ==
    { o \in [1..Cardinality(S) -> S] : \A i, j \in DOMAIN o : i # j => o[i] # o[j] }

RECURSIVE lint_failures(_, _, _)
\* lint_all: the list `failures` after the loop over the languages.
lint_failures(languages, out, make) ==
    IF languages = <<>> THEN <<>>
    ELSE LET return_code == run_language_lint(out.langs[Head(languages)], make)
         IN  (IF return_code # 0
              THEN << [language |-> Head(languages), rc |-> return_code] >>
              ELSE <<>>)
             \o lint_failures(Tail(languages), out, make)

\* snippets_command(args), the whole call.
SnippetsCommand ==
    /\ pc = "start"
    /\ IF ~srcExists
       THEN /\ cmdRet' = 1
            /\ pc' = "returned"
            /\ UNCHANGED <<outTree, cmdRan, cmdLog, cmdErr>>
       ELSE /\ outTree' = [outTree EXCEPT !.exists = TRUE]
            /\ IF cmdArgs.lint_only = FALSE /\ cmdEnv.exportFault # "none"
               THEN /\ cmdRan' = <<"mkdir", "export_all">>
                    /\ cmdErr' = cmdEnv.exportFault
                    /\ pc' = "raised"
                    /\ UNCHANGED <<cmdLog, cmdRet>>
               ELSE /\ cmdRan' = <<"mkdir">>
                              \o (IF cmdArgs.lint_only = FALSE
                                  THEN <<"export_all">> ELSE <<>>)
                              \o (IF cmdArgs.export_only = FALSE
                                  THEN <<"lint_all">> ELSE <<>>)
                    /\ \E languages \in Orders(DOMAIN outTree.langs) :
                          cmdLog' = IF cmdArgs.export_only = FALSE
                                    THEN lint_failures(languages, outTree, cmdEnv.make)
                                    ELSE <<>>
                    /\ cmdRet' = 0
                    /\ pc' = "returned"
                    /\ UNCHANGED cmdErr
    /\ UNCHANGED <<callData, linkVars, snipVars, tarVars, buildVars, invVars, expVars, fetchVars, supportVars, parVars>>
    /\ UNCHANGED <<cmdArgs, srcExists, cmdEnv>>

InitCommand ==
    /\ InitNoLinks
    /\ InitNoExport
    /\ InitNoTar
    /\ InitNoBuild
    /\ InitNoInventory
    /\ InitNoExportAll
    /\ InitNoFetch
    /\ InitNoSupport
    /\ InitNoParallel
    /\ InitIdleCall
    /\ cmdArgs \in [export_only : BOOLEAN, lint_only : BOOLEAN]
    /\ srcExists \in BOOLEAN
    /\ outTree \in
          { [exists |-> e, langs |-> ls] :
              e \in BOOLEAN,
              ls \in UNION { [S -> [makefile : BOOLEAN, rc : LintCodes]] :
                               S \in SUBSET LintLanguages } }
    /\ ~outTree.exists => DOMAIN outTree.langs = {}
    /\ \A l \in DOMAIN outTree.langs :
          ~outTree.langs[l].makefile => outTree.langs[l].rc = 0
    /\ cmdEnv \in [make : BOOLEAN, exportFault : {"none", "UnicodeDecodeError"}]
    /\ cmdRan = <<>>
    /\ cmdLog = <<>>
    /\ cmdRet = 0 - 1
    /\ cmdErr = "none"

NextCommand == SnippetsCommand

SpecCommand == InitCommand /\ [][NextCommand]_vars

\* The lint command of some language has run and exited with a code that
\* is not zero.
LintFailed ==
    /\ cmdArgs.export_only = FALSE
    /\ cmdEnv.make
    /\ \E l \in DOMAIN outTree.langs :
          outTree.langs[l].makefile /\ outTree.langs[l].rc # 0

\* C24: the exit code of snippets_command is 0 for success and 1 for
\* failure: it is 1 when the source directory is missing, and then no output
\* directory is created and neither export nor lint runs; it is not 0 when
\* the lint command of a language exits with a code that is not zero.
C24_ExitCode ==
    pc = "returned" =>
        /\ cmdRet \in {0, 1}
        /\ ~srcExists => (cmdRet = 1 /\ cmdRan = <<>>)
        /\ LintFailed => cmdRet # 0

\* ------------------------------------------------------------------ C27

\* The lines of the opening fences of all the fenced code blocks of the
\* text, extracted or not.
FencedBlockLines(t) ==
    LET ms == CodeMatches(t, 1)
    IN  {CountNewlines(t, ms[k].start) : k \in DOMAIN ms}

MaxExportBlocks == 2

\* The keys of DocumentationSnippetsParser.language_file_assoc.
AssocLanguages == {<<"python">>, <<"typescript">>}

IsUnder(path, dir) ==
    Len(path) > Len(dir) /\ Slice(path, 1, Len(dir)) = dir

\* gi.match(rel_path) for the patterns of a .gitignore.
gitignore_match(patterns, rel_path) ==
    LET name == rel_path[Len(rel_path)]
    IN  \/ patterns = <<"*">>
        \/ Len(patterns) = 2 /\ name[Len(name)] = patterns[2]

\* _clean_ignored_files(target_dir)
clean_ignored_files(st, target_dir) ==
    LET gitignore_path == Append(target_dir, <<".gitignore">>)
        gi == {f \in st.files : f.path = gitignore_path}
    IN  IF gi = {} THEN st
        ELSE LET patterns == (CHOOSE f \in gi : TRUE).content
             IN  IF patterns = <<>> THEN st
                 ELSE [st EXCEPT !.files =
                         {f \in @ : ~(/\ IsUnder(f.path, target_dir)
                                      /\ gitignore_match(patterns,
                                            Slice(f.path, Len(target_dir) + 1,
                                                  Len(f.path))))}]

\* The entries of a directory: target_dir.iterdir()
iterdir(st, target_dir) ==
    {d \in st.dirs : Len(d) = Len(target_dir) + 1 /\ IsUnder(d, target_dir)}
        \cup {f.path : f \in {g \in st.files :
                                 /\ Len(g.path) = Len(target_dir) + 1
                                 /\ IsUnder(g.path, target_dir)}}

RECURSIVE clean_empty_subdirs(_, _)
RECURSIVE CleanSubdirs(_, _)
\* The loop of _clean_empty_subdirs over the subdirectories.
CleanSubdirs(st, subdirs) ==
    IF subdirs = {} THEN st
    ELSE LET subdir == CHOOSE d \in subdirs : TRUE
         IN  CleanSubdirs(clean_empty_subdirs(st, subdir), subdirs \ {subdir})

\* _clean_empty_subdirs(target_dir): the subdirectories first, then the
\* directory itself if nothing is left in it.
clean_empty_subdirs(st, target_dir) ==
    IF target_dir \notin st.dirs THEN st
    ELSE LET after == CleanSubdirs(st, iterdir(st, target_dir) \cap st.dirs)
         IN  IF iterdir(after, target_dir) = {}
             THEN [after EXCEPT !.dirs = @ \ {target_dir}]
             ELSE after

\* The body of the loop of clean_all for one language directory.
clean_language_dir(st, language_dir) ==
    clean_empty_subdirs(clean_ignored_files(st, language_dir), language_dir)

\* _get_language_paths()
get_language_paths(st) ==
    {d \in st.dirs : Len(d) = 1 /\ d[1] \in AssocLanguages}

RECURSIVE CleanLanguages(_, _)
CleanLanguages(st, language_dirs) ==
    IF language_dirs = {} THEN st
    ELSE LET language_dir == CHOOSE d \in language_dirs : TRUE
         IN  CleanLanguages(clean_language_dir(st, language_dir),
                            language_dirs \ {language_dir})

\* clean_all()
clean_all(st) == CleanLanguages(st, get_language_paths(st))

\* clean_all() alone, as clean_snippets_command runs it.
CleanAll ==
    /\ pc = "start"
    /\ \E st \in {clean_all([dirs |-> dirs, files |-> files, err |-> "none"])} :
          /\ dirs' = st.dirs
          /\ files' = st.files
    /\ pc' = "cleaned"
    /\ UNCHANGED <<callData, linkVars, tarVars, moreVars, snippets, exportErr>>

\* export_all(): clean_all, then _export_file for the file oss/guide.mdx.
ExportAll ==
    /\ pc = "start"
    /\ \E r \in {extract_code_snippets(src)} :
         \E st \in {ExportFrom(r.snippets, 0,
                       clean_all([dirs |-> dirs, files |-> files,
                                  err |-> "none"]))} :
           /\ extracted' = r.code_blocks
           /\ snippets' = r.snippets
           /\ dirs' = st.dirs
           /\ files' = st.files
           /\ exportErr' = st.err
    /\ pc' = "exported"
    /\ UNCHANGED <<src, lang, env, constantsMap, resolved, unescaped, ret, err,
                   warnings, call, linked, passes, orig>>
    /\ UNCHANGED <<linkVars, tarVars, moreVars>>

\* What a language directory may hold when the run starts.
DirKinds == {"absent", "empty", "emptysub", "ignored", "allignored", "kept"}

\* The output root with the language directory of the given kind.
DirOfKind(language, kind) ==
    LET ext == language_file_assoc(language)
        sub == << <<language>>, <<language, SourcePath[1]>>,
                  <<language>> \o SourcePath >>
        stale == [path |-> <<language>> \o SourcePath
                              \o <<language \o <<"_", "9", ext>>>>,
                  content |-> <<"old">>]
    IN  CASE kind = "absent" -> [dirs |-> {}, files |-> {}]
          [] kind = "empty" -> [dirs |-> {<<language>>}, files |-> {}]
          [] kind = "emptysub" ->
                [dirs |-> {<<language>>, <<language, SourcePath[1]>>},
                 files |-> {}]
          [] kind = "ignored" ->
                [dirs |-> {sub[i] : i \in 1..3},
                 files |-> {stale, [path |-> <<language, <<".gitignore">>>>,
                                    content |-> <<"*", ext>>]}]
          [] kind = "allignored" ->
                [dirs |-> {sub[i] : i \in 1..3},
                 files |-> {stale, [path |-> <<language, <<".gitignore">>>>,
                                    content |-> <<"*">>]}]
          [] OTHER ->
                [dirs |-> {<<language>>},
                 files |-> {[path |-> <<language, <<"Makefile">>>>,
                             content |-> <<"lint">>]}]

ExportAllTexts ==
    {BlocksText(os) :
        os \in UNION {[1..n -> BlockOpenings] : n \in 0..MaxExportBlocks}}

InitExportAll ==
    /\ src \in ExportAllTexts
    /\ lang = None
    /\ env = "python"
    /\ constantsMap = EmptyMap
    /\ InitCallLocals
    /\ InitNoLinks
    /\ InitNoTar
    /\ InitNoBuild
    /\ InitNoInventory
    /\ InitNoCommand
    /\ InitNoFetch
    /\ InitNoSupport
    /\ InitNoParallel
    /\ snippets = NoValue
    /\ \E py \in DirKinds, ts \in DirKinds, rb \in {"absent", "empty"} :
          outBefore =
              [dirs |-> DirOfKind(<<"python">>, py).dirs
                          \cup DirOfKind(<<"typescript">>, ts).dirs
                          \cup DirOfKind(<<"ruby">>, rb).dirs,
               files |-> DirOfKind(<<"python">>, py).files
                           \cup DirOfKind(<<"typescript">>, ts).files]
    /\ dirs = outBefore.dirs
    /\ files = outBefore.files
    /\ exportErr = "none"

NextExportAll == CleanAll \/ ExportAll

SpecExportAll == InitExportAll /\ [][NextExportAll]_vars

\* The path of the file of the snippet idx (zero-based) of a language.
SnippetPath(language, idx) ==
    <<language>> \o SourcePath \o <<snippet_name(language, idx)>>

\* C26: if the directory of a supported language exists when export_all is
\* called, the language is still enabled after the clean_all step and every
\* snippet of that language found in the sources is written during the
\* call, also when the directory was empty or held only ignored files.
C26_ExistingDirectoryEnables ==
    pc = "exported" =>
        \A language \in AssocLanguages :
            <<language>> \in outBefore.dirs =>
                /\ <<language>> \in dirs
                /\ \A i \in DOMAIN snippets :
                      snippets[i].language = language =>
                          \E f \in files : f.path = SnippetPath(language, i - 1)

\* ------------------------------------------------- download of a tarball
\* _fetch_extract_tarball(url, tmpdir) (reference/python/build.py): the
\* scheme check, the named temporary file, the download, tarfile.open and
\* _extract_html_dir into the destination root.  tarfile.open reads the
\* temporary file by its name while the writer is still open and not
\* flushed: whether it finds a whole archive (ok), an empty file (ReadError)
\* or a truncated one (EOFError) depends on the sizes of the chunks of the
\* download and is an input here, as is the failure of urlopen.

\* Number of members of a downloaded archive.
MaxFetchMembers == 1

\* The name NamedTemporaryFile(delete=False, suffix=".tar.gz") gives.
TmpTarball == "tmp.tar.gz"

\* The schemes of the urls a caller may pass.
Schemes == {"https", "http", "file", ""}

\* urllib.parse.urlparse(url).scheme != "https"
RejectsScheme(scheme) == scheme # "https"

\* _fetch_extract_tarball(url, DestRoot), the whole call: the finally clause
\* closes the temporary file and does not remove it.
FetchExtractTarball ==
    /\ pc = "start"
    /\ IF RejectsScheme(url.scheme)
       THEN /\ fetchErr' = "InvalidTarballURLSchemeError"
            /\ UNCHANGED <<tmpFiles, downloads, tree, tarErr>>
       ELSE /\ tmpFiles' = tmpFiles \cup {TmpTarball}
            /\ downloads' = downloads + 1
            /\ IF net.urlopen # "ok"
               THEN /\ fetchErr' = net.urlopen
                    /\ UNCHANGED <<tree, tarErr>>
               ELSE IF net.archive # "ok"
               THEN /\ fetchErr' = net.archive
                    /\ UNCHANGED <<tree, tarErr>>
               ELSE \E r \in {extract_html_dir(tree, members, DestRoot)} :
                       /\ tree' = r.tree
                       /\ tarErr' = r.err
                       /\ fetchErr' = r.err
    /\ pc' = "fetched"
    /\ UNCHANGED <<callData, linkVars, snipVars, members>>
    /\ UNCHANGED <<buildVars, invVars, cmdVars, expVars, supportVars, parVars, url, net>>

InitFetch ==
    /\ members \in UNION {[1..n -> [name : MemberNames, isfile : BOOLEAN]] :
                             n \in 0..MaxFetchMembers}
    /\ tree = RootTree
    /\ tarErr = "none"
    /\ InitNoLinks
    /\ InitNoExport
    /\ InitNoBuild
    /\ InitNoInventory
    /\ InitNoCommand
    /\ InitNoExportAll
    /\ InitNoSupport
    /\ InitNoParallel
    /\ InitIdleCall
    /\ url \in [scheme : Schemes]
    /\ net \in [urlopen : {"ok", "URLError"},
               archive : {"ok", "ReadError", "EOFError"}]
    /\ tmpFiles = {}
    /\ downloads = 0
    /\ fetchErr = "none"

NextFetch == FetchExtractTarball

SpecFetch == InitFetch /\ [][NextFetch]_vars

\* C29: a url whose scheme is not https is rejected with
\* InvalidTarballURLSchemeError before any download and before any
\* temporary file is created, and for an https url the temporary tarball no
\* longer exists when the call has returned or raised.
C29_SchemeCheckedTmpRemoved ==
    pc = "fetched" =>
        /\ url.scheme # "https" =>
              /\ fetchErr = "InvalidTarballURLSchemeError"
              /\ downloads = 0
              /\ tmpFiles = {}
              /\ tree = RootTree
        /\ url.scheme = "https" => TmpTarball \notin tmpFiles

\* ------------------------------------------------ the support agent example
\* src/handoffs.py: the agent of create_agent with the three wrap_model_call
\* middlewares and the four tools.  A message is its kind ("human", "ai",
\* "tool", "system").  A model call goes through the middlewares in the
\* order of the list, the first outermost; the model then calls one of the
\* tools of the request it was handed, or answers and ends the turn.

\* Number of messages of a conversation.
MaxMessages == 10

all_tools ==
    {"record_warranty_status", "record_issue_type", "provide_solution",
     "escalate_to_human"}

\* A hand-off that does not record the status.
handoff_without_status(state, status) ==
    [state EXCEPT !.active_agent = "issue_classifier"]

\* The tool record_warranty_status: the update of its Command.
record_warranty_status(state, status) ==
    [state EXCEPT !.warranty_status = status,
                  !.active_agent = "issue_classifier"]

\* The tool record_issue_type: the update of its Command.
record_issue_type(state, issue_type) ==
    [state EXCEPT !.issue_type = issue_type,
                  !.active_agent = "resolution_specialist"]

\* get_recent_messages(messages, max_turns): the messages that are not
\* system messages from the max_turns-th last human message on, from the
\* first human message if there are fewer.
get_recent_messages(msgs, max_turns) ==
    LET kept == SelectSeq(msgs, LAMBDA m : m # "system")
        humans == {i \in DOMAIN kept : kept[i] = "human"}
        later(i) == Cardinality({j \in humans : j >= i})
    IN  IF humans = {} THEN <<>>
        ELSE LET start == IF Cardinality(humans) >= max_turns
                          THEN CHOOSE i \in humans : later(i) = max_turns
                          ELSE MinOf(humans)
             IN  SubSeq(kept, start, Len(kept))

\* request.override(messages=[SystemMessage(prompt)] + relevant, tools=...)
override(request, config, tools) ==
    [request EXCEPT !.messages = <<"system">> \o get_recent_messages(@, 2),
                    !.tools = tools,
                    !.overriddenBy = Append(@, config)]

\* warranty_collector_config: the request it hands to its handler.
warranty_collector_config(request) ==
    LET active == IF request.state.active_agent = None
                  THEN "warranty_collector" ELSE request.state.active_agent
    IN  IF active # "warranty_collector" THEN request
        ELSE override(request, "warranty_collector_config",
                      {"record_warranty_status"})

\* issue_classifier_config: the request it hands on, or the ValueError.
issue_classifier_config(request) ==
    IF request.state.active_agent # "issue_classifier" THEN request
    ELSE IF request.state.warranty_status = None
         THEN [request EXCEPT !.error = "ValueError"]
         ELSE override(request, "issue_classifier_config", {"record_issue_type"})

\* resolution_specialist_config: the request it hands on, or the ValueError.
resolution_specialist_config(request) ==
    IF request.state.active_agent # "resolution_specialist" THEN request
    ELSE IF request.state.warranty_status = None
         THEN [request EXCEPT !.error = "ValueError"]
         ELSE IF request.state.issue_type = None
         THEN [request EXCEPT !.error = "ValueError"]
         ELSE override(request, "resolution_specialist_config",
                       {"provide_solution", "escalate_to_human"})

\* The middleware list of create_agent applied to a request: an exception
\* of a middleware ends the call.
Middleware(request) ==
    LET a == warranty_collector_config(request)
        b == IF a.error # "none" THEN a ELSE issue_classifier_config(a)
    IN  IF b.error # "none" THEN b ELSE resolution_specialist_config(b)

\* The user sends a message: a turn starts.
UserMessage ==
    /\ pc \in {"start", "idle"}
    /\ Len(messages) < MaxMessages
    /\ messages' = Append(messages, "human")
    /\ pc' = "model"
    /\ UNCHANGED <<agentState, lastRequest, agentErr>>
    /\ UNCHANGED <<callData, linkVars, snipVars, tarVars>>
    /\ UNCHANGED <<buildVars, invVars, cmdVars, expVars, fetchVars, parVars>>

\* The model node: the request goes through the middlewares to the model.
CallModel ==
    /\ pc = "model"
    /\ \E r \in {Middleware([state |-> agentState, messages |-> messages,
                             tools |-> all_tools, overriddenBy |-> <<>>,
                             error |-> "none"])} :
          IF r.error # "none"
          THEN /\ agentErr' = r.error
               /\ pc' = "raised"
               /\ UNCHANGED lastRequest
          ELSE /\ lastRequest' = [messages |-> r.messages, tools |-> r.tools,
                                  overriddenBy |-> r.overriddenBy,
                                  error |-> r.error]
               /\ pc' = "respond"
               /\ UNCHANGED agentErr
    /\ UNCHANGED <<agentState, messages>>
    /\ UNCHANGED <<callData, linkVars, snipVars, tarVars>>
    /\ UNCHANGED <<buildVars, invVars, cmdVars, expVars, fetchVars, parVars>>

\* The model calls a tool of the request and the tool node runs it: the
\* AI message and the ToolMessage are added, the Command updates the state.
CallTool ==
    /\ pc = "respond"
    /\ Len(messages) + 2 <= MaxMessages
    /\ \E t \in lastRequest.tools :
          \/ /\ t = "record_warranty_status"
             /\ \E status \in {"in_warranty", "out_of_warranty"} :
                   agentState' = record_warranty_status(agentState, status)
          \/ /\ t = "record_issue_type"
             /\ \E issue_type \in {"hardware", "software"} :
                   agentState' = record_issue_type(agentState, issue_type)
          \/ /\ t \in {"provide_solution", "escalate_to_human"}
             /\ UNCHANGED agentState
    /\ messages' = messages \o <<"ai", "tool">>
    /\ pc' = "model"
    /\ UNCHANGED <<lastRequest, agentErr>>
    /\ UNCHANGED <<callData, linkVars, snipVars, tarVars>>
    /\ UNCHANGED <<buildVars, invVars, cmdVars, expVars, fetchVars, parVars>>

\* The model answers without a tool call: the turn ends.
Answer ==
    /\ pc = "respond"
    /\ Len(messages) < MaxMessages
    /\ messages' = Append(messages, "ai")
    /\ pc' = "idle"
    /\ UNCHANGED <<agentState, lastRequest, agentErr>>
    /\ UNCHANGED <<callData, linkVars, snipVars, tarVars>>
    /\ UNCHANGED <<buildVars, invVars, cmdVars, expVars, fetchVars, parVars>>

InitSupport ==
    /\ InitNoLinks
    /\ InitNoParallel
    /\ InitNoExport
    /\ InitNoTar
    /\ InitNoBuild
    /\ InitNoInventory
    /\ InitNoCommand
    /\ InitNoExportAll
    /\ InitNoFetch
    /\ InitIdleCall
    /\ agentState = [active_agent |-> None, warranty_status |-> None,
                     issue_type |-> None]
    /\ messages = <<>>
    /\ lastRequest = [messages |-> <<>>, tools |-> {}, overriddenBy |-> <<>>,
                      error |-> "none"]
    /\ agentErr = "none"

NextSupport == UserMessage \/ CallModel \/ CallTool \/ Answer

SpecSupport == InitSupport /\ [][NextSupport]_vars

\* The place of an agent in the workflow.
StageOf(agent) ==
    CASE agent = "issue_classifier" -> 2
      [] agent = "resolution_specialist" -> 3
      [] OTHER -> 1

\* The middleware and the tools of a stage.
ConfigOfStage ==
    <<[config |-> "warranty_collector_config",
       tools |-> {"record_warranty_status"}],
      [config |-> "issue_classifier_config", tools |-> {"record_issue_type"}],
      [config |-> "resolution_specialist_config",
       tools |-> {"provide_solution", "escalate_to_human"}]>>

SupportInvariant ==
    /\ agentErr = "none" /\ pc # "raised"
    /\ agentState.active_agent = "issue_classifier"
          => agentState.warranty_status # None
    /\ agentState.active_agent = "resolution_specialist"
          => (agentState.warranty_status # None /\ agentState.issue_type # None)
    /\ pc = "respond" =>
          /\ lastRequest.overriddenBy
                = <<ConfigOfStage[StageOf(agentState.active_agent)].config>>
          /\ lastRequest.tools
                = ConfigOfStage[StageOf(agentState.active_agent)].tools
          /\ lastRequest.messages[1] = "system"

\* C30: in every run that starts with the three fields unset and in which
\* the model calls only tools of the current request, active_agent only
\* moves forward, exactly one of the three middlewares overrides each model
\* request, issue_classifier implies that warranty_status is set,
\* resolution_specialist that warranty_status and issue_type are set, and
\* no ValueError is raised.
C30_HandoffsForwardOnly ==
    /\ []SupportInvariant
    /\ [][StageOf(agentState'.active_agent) >= StageOf(agentState.active_agent)]_vars

\* C30 witness: the conversation has reached the resolution specialist and
\* its request is with the model.
C30_Witness ==
    /\ pc = "respond"
    /\ agentState.active_agent = "resolution_specialist"
    /\ lastRequest.tools = {"provide_solution", "escalate_to_human"}
    /\ Len(lastRequest.messages) > 2


\* ------------------------------------------- the per-file transform, in parallel

\* Number of files transformed at the same time, one thread per file.
MaxParFiles == 2

\* The calls the thread of a file makes on the text of its file.
FileCalls == <<"preprocess_markdown", "replace_constants", "_extract_code_snippets">>

\* The texts of the files: one with a cross-reference of no registry, an
\* unknown constant and two exported blocks to merge; one with another
\* such cross-reference and a known constant in a conditional block.
ParTexts ==
    { JoinLines(<< <<AT, "Missing", RBR>>, <<DOLLAR, "U", RBR>>,
                   <<TICKS, "js", SP, "export">>, <<"A">>, <<TICKS>>,
                   <<TICKS, "js", SP, "export", SP, "merge-before">>,
                   <<"A">>, <<TICKS>> >>),
      JoinLines(<< <<AT, "Other", RBR>>, <<FENCE, "js">>,
                   <<DOLLAR, "K", RBR>>, <<FENCE>> >>) }

\* Every call keeps its parameters and its locals in one frame for all the
\* files: module-level variables instead of locals.
module_frame(f) == 1

\* The frame of the call made for the file f: the parameters (content,
\* markdown) and the locals (content, substituted, code_blocks, acc) of
\* the three functions belong to the call.
call_frame(f) == f

\* The frame of a call on entry.
NewFrame(content) ==
    [content |-> content, code_blocks |-> <<>>, acc |-> <<>>, step |-> 0]

\* The records a call of the file f adds to the log, with how many times.
RecordsOf(f, logged) ==
    [r \in {<<f, logged[k]>> : k \in DOMAIN logged} |->
        Cardinality({k \in DOMAIN logged : logged[k] = r[2]})]

\* The thread of the file f calls the next function on the text of f.
CallNext ==
    \E f \in DOMAIN fileTexts :
        /\ running[f] = "none"
        /\ pending[f] # <<>>
        /\ running' = [running EXCEPT ![f] = Head(pending[f])]
        /\ pending' = [pending EXCEPT ![f] = Tail(pending[f])]
        /\ frames' = [frames EXCEPT ![call_frame(f)] = NewFrame(fileTexts[f])]
        /\ UNCHANGED <<fileTexts, outputs, records>>
        /\ UNCHANGED <<callVars, linkVars, snipVars, tarVars>>
        /\ UNCHANGED <<buildVars, invVars, cmdVars, expVars, fetchVars, supportVars>>

\* The thread of the file f returns value from the call it is in.
Return(f, value) ==
    /\ outputs' = [outputs EXCEPT ![f] = (running[f] :> value) @@ @]
    /\ running' = [running EXCEPT ![f] = "none"]

\* preprocess_markdown, first statement: TARGET_LANGUAGE is read when no
\* target language is given, then content = replace_autolinks(content, ...).
PreprocessAutolinks ==
    \E f \in DOMAIN fileTexts :
        /\ running[f] = "preprocess_markdown"
        /\ frames[call_frame(f)].step = 0
        /\ \E r \in {replace_autolinks(frames[call_frame(f)].content,
                                       effective_target_language(lang, env))} :
               /\ frames' = [frames EXCEPT ![call_frame(f)].content = r.text,
                                           ![call_frame(f)].step = 1]
               /\ records' = records (+) RecordsOf(f, r.logged)
        /\ UNCHANGED <<fileTexts, running, pending, outputs>>
        /\ UNCHANGED <<callVars, linkVars, snipVars, tarVars>>
        /\ UNCHANGED <<buildVars, invVars, cmdVars, expVars, fetchVars, supportVars>>

\* preprocess_markdown, last statement:
\* return _apply_conditional_rendering(content, target_language).
PreprocessRender ==
    \E f \in DOMAIN fileTexts :
        /\ running[f] = "preprocess_markdown"
        /\ frames[call_frame(f)].step = 1
        /\ \E r \in {apply_conditional_rendering(frames[call_frame(f)].content,
                         effective_target_language(lang, env))} :
               Return(f, [ret |-> r.ret, err |-> r.err])
        /\ UNCHANGED <<fileTexts, pending, frames, records>>
        /\ UNCHANGED <<callVars, linkVars, snipVars, tarVars>>
        /\ UNCHANGED <<buildVars, invVars, cmdVars, expVars, fetchVars, supportVars>>

\* replace_constants, first statement:
\* substituted = CONSTANT_PATTERN.sub(_replace, markdown), which reads
\* CONSTANTS_MAP and logs the names it does not find.
ConstantsSubstitute ==
    \E f \in DOMAIN fileTexts :
        /\ running[f] = "replace_constants"
        /\ frames[call_frame(f)].step = 0
        /\ \E r \in {ConstantSub(frames[call_frame(f)].content, 1, constantsMap)} :
               /\ frames' = [frames EXCEPT ![call_frame(f)].content = r.text,
                                           ![call_frame(f)].step = 1]
               /\ records' = records (+) RecordsOf(f, r.logged)
        /\ UNCHANGED <<fileTexts, running, pending, outputs>>
        /\ UNCHANGED <<callVars, linkVars, snipVars, tarVars>>
        /\ UNCHANGED <<buildVars, invVars, cmdVars, expVars, fetchVars, supportVars>>

\* replace_constants, last statement: the unescaped text is returned.
ConstantsUnescape ==
    \E f \in DOMAIN fileTexts :
        /\ running[f] = "replace_constants"
        /\ frames[call_frame(f)].step = 1
        /\ Return(f, UnescapeConstants(frames[call_frame(f)].content))
        /\ UNCHANGED <<fileTexts, pending, frames, records>>
        /\ UNCHANGED <<callVars, linkVars, snipVars, tarVars>>
        /\ UNCHANGED <<buildVars, invVars, cmdVars, expVars, fetchVars, supportVars>>

\* _extract_code_snippets, first statement:
\* code_blocks = self._extract_code_blocks(content).
ExtractBlocks ==
    \E f \in DOMAIN fileTexts :
        /\ running[f] = "_extract_code_snippets"
        /\ frames[call_frame(f)].step = 0
        /\ frames' = [frames EXCEPT
                         ![call_frame(f)].code_blocks =
                             extract_code_blocks(frames[call_frame(f)].content),
                         ![call_frame(f)].step = 1]
        /\ UNCHANGED <<fileTexts, running, pending, outputs, records>>
        /\ UNCHANGED <<callVars, linkVars, snipVars, tarVars>>
        /\ UNCHANGED <<buildVars, invVars, cmdVars, expVars, fetchVars, supportVars>>

\* _extract_code_snippets: one step of reduce(reduce_code_blocks,
\* code_blocks, []), on the next block.
ReduceStep ==
    \E f \in DOMAIN fileTexts :
        /\ running[f] = "_extract_code_snippets"
        /\ frames[call_frame(f)].step = 1
        /\ frames[call_frame(f)].code_blocks # <<>>
        /\ frames' = [frames EXCEPT
                         ![call_frame(f)].acc =
                             reduce_code_blocks(@, Head(frames[call_frame(f)].code_blocks)),
                         ![call_frame(f)].code_blocks = Tail(@)]
        /\ UNCHANGED <<fileTexts, running, pending, outputs, records>>
        /\ UNCHANGED <<callVars, linkVars, snipVars, tarVars>>
        /\ UNCHANGED <<buildVars, invVars, cmdVars, expVars, fetchVars, supportVars>>

\* _extract_code_snippets: reduce has gone through the blocks and the
\* accumulator is returned.
ExtractReturn ==
    \E f \in DOMAIN fileTexts :
        /\ running[f] = "_extract_code_snippets"
        /\ frames[call_frame(f)].step = 1
        /\ frames[call_frame(f)].code_blocks = <<>>
        /\ Return(f, frames[call_frame(f)].acc)
        /\ UNCHANGED <<fileTexts, pending, frames, records>>
        /\ UNCHANGED <<callVars, linkVars, snipVars, tarVars>>
        /\ UNCHANGED <<buildVars, invVars, cmdVars, expVars, fetchVars, supportVars>>

\* At most MaxParFiles files, each with a thread that has its three calls
\* to make; the target language given or left to TARGET_LANGUAGE; the
\* registry and the constants map built.
InitParallel ==
    /\ src = <<>>
    /\ lang \in {"python", None}
    /\ env = "js"
    /\ constantsMap = TestMap
    /\ InitCallLocals
    /\ manualMaps = <<>>
    /\ autoMaps = <<>>
    /\ linkMaps = NoValue
    /\ scopeLinkMaps = SCOPE_LINK_MAPS
    /\ InitNoExport
    /\ InitNoTar
    /\ InitNoBuild
    /\ InitNoInventory
    /\ InitNoCommand
    /\ InitNoExportAll
    /\ InitNoFetch
    /\ InitNoSupport
    /\ fileTexts \in UNION {[1..n -> ParTexts] : n \in 1..MaxParFiles}
    /\ running = [f \in DOMAIN fileTexts |-> "none"]
    /\ pending = [f \in DOMAIN fileTexts |-> FileCalls]
    /\ frames = [f \in DOMAIN fileTexts |-> NewFrame(<<>>)]
    /\ outputs = [f \in DOMAIN fileTexts |-> <<>>]
    /\ records = EmptyBag

NextParallel ==
    \/ CallNext
    \/ PreprocessAutolinks
    \/ PreprocessRender
    \/ ConstantsSubstitute
    \/ ConstantsUnescape
    \/ ExtractBlocks
    \/ ReduceStep
    \/ ExtractReturn

SpecParallel == InitParallel /\ [][NextParallel]_vars

\* ------------------------------------------------------------------ C25

\* What the call fn returns for the file f when f is processed alone.
AloneOutput(f, fn) ==
    CASE fn = "preprocess_markdown" ->
             LET r == preprocess_markdown(fileTexts[f], lang, None, env)
             IN  [ret |-> r.ret, err |-> r.err]
      [] fn = "replace_constants" ->
             replace_constants(fileTexts[f], constantsMap).text
      [] OTHER -> extract_code_snippets(fileTexts[f]).snippets

\* Every finished call returned what it returns when its file is alone.
OutputsAsAlone ==
    \A f \in DOMAIN fileTexts : \A fn \in DOMAIN outputs[f] :
        outputs[f][fn] = AloneOutput(f, fn)

\* C25: whatever the interleaving of the calls of the threads, each file's
\* outputs are those of processing it alone, and no step changes the link
\* registry, the constants map or the environment.
C25_InterleavingKeepsOutputs ==
    /\ []OutputsAsAlone
    /\ [][/\ scopeLinkMaps' = scopeLinkMaps
          /\ constantsMap' = constantsMap
          /\ env' = env]_vars

\* C25 witness: the threads of two files with different texts are both in
\* the middle of a call, one in _extract_code_snippets and the other in
\* replace_constants, after each has returned from preprocess_markdown.
C25_Witness ==
    /\ Len(fileTexts) = 2
    /\ fileTexts[1] # fileTexts[2]
    /\ running[1] = "_extract_code_snippets"
    /\ running[2] = "replace_constants"
    /\ frames[1].step = 1
    /\ frames[2].step = 1
    /\ frames[1].acc # <<>>
    /\ "preprocess_markdown" \in DOMAIN outputs[1]
    /\ "preprocess_markdown" \in DOMAIN outputs[2]

=============================================================================
